---------------------------- MODULE Spec2Model ----------------------------
(***************************************************************************)
(* A model of the dependency-confusion scanner "confused":                 *)
(*   - the registry resolvers (pip, composer, maven): the range loop of     *)
(*     PackagesNotInPublic and the request/retry logic of                   *)
(*     isAvailableInPublic, with the registry as the environment;           *)
(*   - the scan handlers that consume a resolver's answer (local file,      *)
(*     GitHub scanDependencyFile, web scanDependencyFile): removeSafe,      *)
(*     AddVulnerable, Finalize;                                             *)
(*   - removeSafe and the glob matching it relies on;                       *)
(*   - the worker pool and the GitHub organization scan built on it.        *)
(*   - the web batch scan, the generic WorkerPool and the ScanResult        *)
(*     methods as callers may use them;                                     *)
(*   - the GitHub repository scan over branches and the blob it reads;      *)
(*   - the manifest parsers (ReadPackagesFromFile of pip, composer, maven); *)
(*   - the resolver factories, the exit status and target list of the       *)
(*     commands, and the context and timeout handed to a resolver;          *)
(*   - the branch and repository listings of the GitHub scanner;            *)
(*   - the probes of one web target, and the web workers while one target   *)
(*     does not answer;                                                     *)
(*   - the ecosystems a scan is asked for, in the local, GitHub and web     *)
(*     scans, and a pip manifest that repeats a requirement;                *)
(*   - the workers flag from the command line to the organization pool;     *)
(*   - GetPackageDetails of the composer resolver;                          *)
(*   - concurrent scanDependencyFile calls: their resolvers and their       *)
(*     temporary files;                                                     *)
(*   - a pool and a web batch scan without workers, and the logical lines   *)
(*     of a pip manifest.                                                   *)
(* Strings are sequences of one-character strings so that prefixes, case    *)
(* folding and glob matching are computed, not assumed.                     *)
(***************************************************************************)
EXTENDS Integers, Sequences, FiniteSets, TLC

VARIABLES
    scanType,     \* ScanResult.Type of the running scan: "file", "github", "web"
    language,     \* the resolver in use: "pip", "composer", "mvn"
    safeSpaces,   \* the configured safe-space glob patterns
    Packages,     \* the resolver's Packages slice (parsed manifest)
    pc,           \* position of the scan: "loop", "check", "done"
    idx,          \* index of the range loop of PackagesNotInPublic
    retry,        \* the retry argument of the running isAvailableInPublic call
    requests,     \* HTTP requests issued for the reference at idx
    sleeps,       \* backoff sleeps taken for the reference at idx
    last,         \* per reference: the last registry outcome, "none" if never asked
    notavail,     \* the notavail slice being built by PackagesNotInPublic
    notavailIdx,  \* per entry of notavail: the index of the reference that produced it
    result,       \* the ScanResult of the scan
    \* a call of removeSafe
    rsPackages,   \* its packages argument
    rsSafeSpaces, \* its safeSpaces argument
    retSlice,     \* the slice it returned
    rsPc,         \* "call" before, "returned" after
    \* ScanOrganization and its WorkerPool
    repos,        \* the repositories the organization lists
    failing,      \* the repositories whose ScanRepository returns an error
    workers,      \* gc.config.Workers, the size of the pool
    orgPc,        \* position of ScanOrganization
    submitted,    \* jobs Submit has returned for (the submit loop's progress)
    collected,    \* batches received from resultsChan (the collect loop's progress)
    jobQueue,     \* WorkerPool.jobQueue: the queued jobs, each the repository it captured
    closed,       \* jobQueue has been closed
    cancelled,    \* the pool's context has been cancelled
    wstate,       \* per worker goroutine: "new", "idle", "sending", "exited"
    wjob,         \* per worker: the repository of the job it runs (0: none)
    wbatch,       \* per worker: the batch its job is about to send
    resultsChan,  \* the buffered results channel
    allResults,   \* the aggregate being built
    warned,       \* repositories for which "Failed to scan repository" was logged
    orgErr,       \* ScanOrganization returned an error
    \* processWebTargetsWithWorkers
    wtTargets,    \* its targets argument
    wtFailing,    \* the targets whose ScanTarget returns an error
    wtWorkers,    \* its workers argument
    targetChan,   \* the buffered channel of targets
    targetsSent,  \* targets the sending goroutine has put on targetChan
    targetsClosed, \* targetChan has been closed
    wtState,      \* per worker goroutine: "idle", "sending", "exited"
    wtBatch,      \* per worker: the batch it is about to send
    resultChan,   \* the buffered channel of result batches
    resultClosed, \* resultChan has been closed
    wtAll,        \* allResults of processWebTargetsWithWorkers
    wtWarned,     \* targets for which "Failed to scan target" was logged
    wtPc,         \* position of the function itself: "collect", "returned"
    wtJob,        \* per worker: the target of its loop iteration (0: none)
    wtTakes,      \* per target: how often it was received from targetChan
    wtScans,      \* per target: how many ScanTarget calls for it have returned
    wtSlow,       \* the target whose server does not answer for now (0: none)
    \* a WorkerPool and the goroutine that uses it
    pWorkers,     \* wp.workers
    pJobs,        \* how many jobs the caller submits before it calls Stop
    pPc,          \* the caller: "start", "submit", "stop", "wait", "stopped"
    pSubmitted,   \* Submit calls that have returned
    pQueue,       \* wp.jobQueue: the queued jobs
    pClosed,      \* wp.jobQueue has been closed
    pState,       \* per worker goroutine: "idle", "running", "exited"
    pJob,         \* per worker: the job it is running (0: none)
    pExecuted,    \* per job: how many times it has run to completion
    pAtClose,     \* the jobs that were waiting in the queue when Stop closed it
    \* a ScanResult and the code that fills it
    srObj,        \* the ScanResult
    srMeta,       \* the keys written to its Metadata map
    srFinalizeCalls, \* how many times Finalize was called on it
    srDirty,      \* it was written (Add*, Metadata) since the last Finalize
    srSnapshot,   \* the ScanResult as the first Finalize left it
    srCalls,      \* calls made on it so far
    hType,        \* the handler filling it: "file", "github", "web"; "any" for any caller
    hPackages,    \* the handler's vulnerablePackages
    hStep,        \* the handler's position in its statements
    hIdx,         \* the handler's index in the range loop over vulnerablePackages
    \* ScanRepository
    ghDeep,       \* its deep argument
    ghBranches,   \* the branches of the repository, the default branch first
    ghTree,       \* per branch, per manifest path: the blob SHA there (0: no such file)
    ghTreeFails,  \* the branches whose tree cannot be fetched
    ghPc,         \* "default", "branches", "returned"
    ghIdx,        \* index of the range loop over the branches
    ghResults,    \* the results slice
    ghOrigin,     \* per result: the branch it was read from
    ghErr,        \* ScanRepository returned an error
    ghFetched,    \* per branch: how often Git.GetTree was called for it
    ghListed,     \* the branches getBranches has collected
    ghPage,       \* the page getBranches asks for next
    \* the blob of a dependency file on its way to the parser
    blFile,       \* the bytes of the file in the repository
    blContent,    \* blob.GetContent(): the content field of the GetBlob answer
    blParsed,     \* the bytes getFileContent returns, written to the temporary file
    blPc,         \* "fetch", "fetched", "returned"
    \* a call of ReadPackagesFromFile
    prLang,       \* the resolver: "pip", "composer", "mvn"
    prReadable,   \* ioutil.ReadFile can read the file
    prContent,    \* the content of the file
    prPackages,   \* the resolver's Packages
    prErr,        \* the error returned (FALSE: nil)
    prWarned,     \* a non-fatal diagnostic was printed
    prPc,         \* "call", "returned"
    \* a call of the resolver factory
    fName,        \* the language argument
    fVerbose,     \* the verbose argument
    fFunc,        \* "plain": GetResolverForLanguage, "verbose": ...WithVerbose
    fResolver,    \* the resolver returned (kind "nil": nil)
    fErr,         \* the error returned (FALSE: nil)
    fLang,        \* the answer of GetLanguage on the resolver returned
    fPc,          \* "call", "returned", "asked"
    \* one run of a scan command of the CLI
    cCmd,         \* "file", "repo", "org", "web"
    cArgs,        \* the positional arguments of the web command
    cFile,        \* --target-file: given or not, readable or not, its lines
    cScan,        \* what the scan called by the command answers: err, results
    cTargets,     \* the targets the web command hands to its scan
    cResults,     \* the results the command got back
    cExit,        \* the exit status of the process (-1: still running)
    cPc,          \* "start", "targets", "exited"
    \* a resolver that was given a context and a timeout
    kLang,        \* the resolver: "pip", "composer", "mvn"
    kTimeout,     \* the duration given to SetTimeout, in ticks
    kPackages,    \* how many packages PackagesNotInPublic ranges over
    kCancelled,   \* the context given to SetContext has been cancelled
    kIdx,         \* index of the range loop
    kRetry,       \* the retry argument of the running isAvailableInPublic
    kWaited,      \* ticks the request in flight has been waiting for an answer
    kLate,        \* requests issued after the context was cancelled
    kPc,          \* "loop", "waiting", "done"
    \* getOrganizationRepos and the submit loop of ScanOrganization
    lTotal,       \* how many public repositories the organization has
    lMaxRepos,    \* the maxRepos argument
    lPage,        \* the page asked for next
    lCalls,       \* calls of Repositories.ListByOrg so far
    lAll,         \* allRepos
    lSubmitted,   \* the repositories of the tasks submitted to the pool
    lErr,         \* getOrganizationRepos returned an error
    lPc,          \* "list", "submit", "done"
    \* one call of Scanner.ScanTarget
    tLanguages,   \* the languages argument
    tDeep,        \* the deep argument
    tMaxDepth,    \* the maxDepth argument
    tParsable,    \* url.Parse accepts the target
    tDir,         \* index into commonDirs of the directory being scanned
    tIdx,         \* index into the file paths of the file probed next
    tRequests,    \* the paths of the GET requests issued, in order
    tResponses,   \* what each request produced: "err" or a status
    tResults,     \* the paths of the ScanResults appended, in order
    tErr,         \* ScanTarget returned an error
    tPc,          \* "parse", "root", "deep", "returned"
    \* a scan command called with a set of ecosystem names
    eKind,        \* the scan kind: "file", "github", "web"
    eLanguages,   \* the language flag (one name) or the languages flag (a list)
    eIdx,         \* index of the range loop over the languages
    ePatterns,    \* the manifest names collected for the known languages
    eScanned,     \* manifests handed to a resolver so far
    eErr,         \* the error returned to the caller: "" or "unsupported"
    ePc,          \* "start", "collect", "scan", "returned"
    \* the worker count of `github org`, from the command line to the pool
    wkArg,        \* the value given with --workers (0: the flag is not given)
    wkFile,       \* the workers value of the config file (0: none)
    wkCfg,        \* cfg.Workers
    wkCli,        \* cliWorkers of config.Load
    wkFlag,       \* the workers flag of orgCmd
    wkLogged,     \* the worker count the command read and logged (0: not yet)
    wkPool,       \* WorkerPool.workers (0: no pool yet)
    wkStarted,    \* worker goroutines started by WorkerPool.Start
    wkPc,         \* "parse", "load", "unmarshal", "restore", "run", "pool", "start", "scanning"
    \* a call of ComposerLookup.GetPackageDetails
    dPackages,    \* c.Packages of the resolver
    dIdx,         \* index of the range loop of buildPackageDetails
    dRetry,       \* the retry argument of the running isAvailableInPublic call
    dRequests,    \* per reference: the registry requests issued for it
    dDetails,     \* c.packageDetails
    dPc,          \* "loop", "check", "returned"
    \* concurrent scanDependencyFile calls (GitHub or web), one per task
    sfKind,       \* the orchestrator: "github" or "web"
    sfManifest,   \* per task: the identifiers in the manifest content it fetched
    sfPc,         \* per task: "start", "create", "write", "close", "parse", "check", "done"
    sfRes,        \* per task: the resolver it got from the factory (0: none yet)
    sfHeap,       \* the resolvers allocated so far, each with its Packages
    sfFile,       \* per task: the name of the temp file it created (0: none)
    sfFs,         \* the temp files that exist, with their content
    sfCreated,    \* os.CreateTemp calls that have succeeded
    sfVulnerable, \* per task: the Vulnerable list of its ScanResult
    sfErr         \* per task: whether its call returned an error

resolverVars == <<scanType, language, safeSpaces, Packages, pc, idx, retry,
                  requests, sleeps, last, notavail, notavailIdx, result>>

safeVars == <<rsPackages, rsSafeSpaces, retSlice, rsPc>>

orgVars == <<repos, failing, workers, orgPc, submitted, collected, jobQueue, closed,
             cancelled, wstate, wjob, wbatch, resultsChan, allResults, warned, orgErr>>

webVars == <<wtTargets, wtFailing, wtWorkers, targetChan, targetsSent, targetsClosed,
             wtState, wtBatch, resultChan, resultClosed, wtAll, wtWarned, wtPc,
             wtJob, wtTakes, wtScans, wtSlow>>

\* the state of the parts that follow the organization scan
poolVars == <<pWorkers, pJobs, pPc, pSubmitted, pQueue, pClosed, pState, pJob,
              pExecuted, pAtClose>>

srVars == <<srObj, srMeta, srFinalizeCalls, srDirty, srSnapshot, srCalls,
            hType, hPackages, hStep, hIdx>>

ghVars == <<ghDeep, ghBranches, ghTree, ghTreeFails, ghPc, ghIdx, ghResults, ghOrigin,
            ghErr, ghFetched, ghListed, ghPage>>

blobVars == <<blFile, blContent, blParsed, blPc>>

parseVars == <<prLang, prReadable, prContent, prPackages, prErr, prWarned, prPc>>

factoryVars == <<fName, fVerbose, fFunc, fResolver, fErr, fLang, fPc>>

cmdVars == <<cCmd, cArgs, cFile, cScan, cTargets, cResults, cExit, cPc>>

ctxVars == <<kLang, kTimeout, kPackages, kCancelled, kIdx, kRetry, kWaited, kLate, kPc>>

listVars == <<lTotal, lMaxRepos, lPage, lCalls, lAll, lSubmitted, lErr, lPc>>

targetVars == <<tLanguages, tDeep, tMaxDepth, tParsable, tDir, tIdx, tRequests,
                tResponses, tResults, tErr, tPc>>

ecoVars == <<eKind, eLanguages, eIdx, ePatterns, eScanned, eErr, ePc>>

wkVars == <<wkArg, wkFile, wkCfg, wkCli, wkFlag, wkLogged, wkPool, wkStarted, wkPc>>

detailVars == <<dPackages, dIdx, dRetry, dRequests, dDetails, dPc>>

sfVars == <<sfKind, sfManifest, sfPc, sfRes, sfHeap, sfFile, sfFs, sfCreated,
            sfVulnerable, sfErr>>

extVars == <<webVars, poolVars, srVars, ghVars, blobVars, parseVars, factoryVars,
             cmdVars, ctxVars, listVars, targetVars, ecoVars, wkVars, detailVars,
             sfVars>>

vars == <<resolverVars, safeVars, orgVars, extVars>>

\* no call of processWebTargetsWithWorkers is running
WebIdle ==
    /\ wtTargets = <<>> /\ wtFailing = {} /\ wtWorkers = 0
    /\ targetChan = <<>> /\ targetsSent = 0 /\ targetsClosed = TRUE
    /\ wtState = <<>> /\ wtBatch = <<>>
    /\ resultChan = <<>> /\ resultClosed = TRUE
    /\ wtAll = <<>> /\ wtWarned = {} /\ wtPc = "returned"
    /\ wtJob = <<>> /\ wtTakes = <<>> /\ wtScans = <<>> /\ wtSlow = 0

\* no WorkerPool of its own is in use
PoolIdle ==
    /\ pWorkers = 0 /\ pJobs = 0 /\ pPc = "stopped" /\ pSubmitted = 0
    /\ pQueue = <<>> /\ pClosed = TRUE /\ pState = <<>> /\ pJob = <<>>
    /\ pExecuted = <<>> /\ pAtClose = {}

\* no ScanResult of its own is being filled
ResultIdle ==
    /\ srObj = <<>> /\ srMeta = {} /\ srFinalizeCalls = 0 /\ srDirty = FALSE
    /\ srSnapshot = <<>> /\ srCalls = 0
    /\ hType = "none" /\ hPackages = <<>> /\ hStep = 0 /\ hIdx = 0

\* no ScanRepository of its own is running
RepoIdle ==
    /\ ghDeep = FALSE /\ ghBranches = <<>> /\ ghTree = <<>> /\ ghTreeFails = {}
    /\ ghPc = "returned" /\ ghIdx = 0 /\ ghResults = <<>> /\ ghOrigin = <<>>
    /\ ghErr = FALSE /\ ghFetched = <<>> /\ ghListed = <<>> /\ ghPage = 1

\* no blob is being fetched
BlobIdle ==
    /\ blFile = <<>> /\ blContent = <<>> /\ blParsed = <<>> /\ blPc = "returned"

\* no call of ReadPackagesFromFile of its own is running
ParseIdle ==
    /\ prLang = "pip" /\ prReadable = TRUE /\ prContent = <<>> /\ prPackages = <<>>
    /\ prErr = FALSE /\ prWarned = FALSE /\ prPc = "returned"

\* no call of the resolver factory of its own is running
FactoryIdle ==
    /\ fName = "" /\ fVerbose = FALSE /\ fFunc = "plain"
    /\ fResolver = [kind |-> "nil", Verbose |-> FALSE]
    /\ fErr = FALSE /\ fLang = "" /\ fPc = "asked"

\* no scan command of its own is running
CommandIdle ==
    /\ cCmd = "file" /\ cArgs = <<>>
    /\ cFile = [given |-> FALSE, readable |-> FALSE, lines |-> <<>>]
    /\ cScan = [err |-> TRUE, results |-> <<>>]
    /\ cTargets = <<>> /\ cResults = <<>> /\ cExit = 1 /\ cPc = "exited"

\* no resolver with a context of its own is running
ContextIdle ==
    /\ kLang = "pip" /\ kTimeout = 0 /\ kPackages = 0 /\ kCancelled = FALSE
    /\ kIdx = 0 /\ kRetry = 0 /\ kWaited = 0 /\ kLate = 0 /\ kPc = "done"

\* no repository listing of its own is running
ListIdle ==
    /\ lTotal = 0 /\ lMaxRepos = 0 /\ lPage = 1 /\ lCalls = 0 /\ lAll = <<>>
    /\ lSubmitted = <<>> /\ lErr = FALSE /\ lPc = "done"

\* no ScanTarget of its own is running
TargetIdle ==
    /\ tLanguages = <<>> /\ tDeep = FALSE /\ tMaxDepth = 0 /\ tParsable = FALSE
    /\ tDir = 1 /\ tIdx = 1 /\ tRequests = <<>> /\ tResponses = <<>> /\ tResults = <<>>
    /\ tErr = TRUE /\ tPc = "returned"

\* no command with ecosystem names is running
EcosystemIdle ==
    /\ eKind = "" /\ eLanguages = <<>> /\ eIdx = 0 /\ ePatterns = <<>>
    /\ eScanned = 0 /\ eErr = "" /\ ePc = "returned"

\* no `github org` command is being set up
WorkersIdle ==
    /\ wkArg = 0 /\ wkFile = 0 /\ wkCfg = 0 /\ wkCli = 0 /\ wkFlag = 0
    /\ wkLogged = 0 /\ wkPool = 0 /\ wkStarted = 0 /\ wkPc = "scanning"

\* no call of GetPackageDetails is running
DetailsIdle ==
    /\ dPackages = <<>> /\ dIdx = 1 /\ dRetry = 0 /\ dRequests = <<>>
    /\ dDetails = <<>> /\ dPc = "returned"

\* no scanDependencyFile call is running
TasksIdle ==
    /\ sfKind = "github" /\ sfManifest = <<>> /\ sfPc = <<>> /\ sfRes = <<>>
    /\ sfHeap = <<>> /\ sfFile = <<>> /\ sfFs = <<>> /\ sfCreated = 0
    /\ sfVulnerable = <<>> /\ sfErr = <<>>

ExtIdle ==
    /\ WebIdle /\ PoolIdle /\ ResultIdle /\ RepoIdle /\ BlobIdle /\ ParseIdle
    /\ FactoryIdle /\ CommandIdle /\ ContextIdle /\ ListIdle /\ TargetIdle
    /\ EcosystemIdle /\ WorkersIdle /\ DetailsIdle /\ TasksIdle

-----------------------------------------------------------------------------
(* Strings *)

\* strings.ToLower on the letters the model's strings use
ToLowerChar(c) ==
    CASE c = "F" -> "f" [] c = "I" -> "i" [] c = "L" -> "l" [] c = "E" -> "e"
      [] c = "G" -> "g" [] c = "T" -> "t" [] c = "H" -> "h" [] c = "P" -> "p"
      [] c = "S" -> "s"
      [] OTHER -> c

ToLower(s) == [i \in 1..Len(s) |-> ToLowerChar(s[i])]

HasPrefix(s, p) == Len(s) >= Len(p) /\ SubSeq(s, 1, Len(p)) = p


-----------------------------------------------------------------------------
(* Glob matching: filepath.Match as removeSafe calls it.  Patterns use       *)
(* literals, '*', '?' and '[...]' classes ('^' negates); '*' and '?' never   *)
(* match the separator '/'.                                                  *)

\* first index of a class member in a pattern that starts with '['
ClassStart(p) == IF Len(p) >= 2 /\ p[2] = "^" THEN 3 ELSE 2

\* indices of a ']' that can close the class opened at p[1]
ClassClosers(p) == {j \in (ClassStart(p) + 1)..Len(p) : p[j] = "]"}

\* the class opened at p[1] has no member or is never closed (ErrBadPattern)
BadClass(p) ==
    \/ ClassStart(p) > Len(p)
    \/ p[ClassStart(p)] = "]"
    \/ ClassClosers(p) = {}

ClassEnd(p) == CHOOSE j \in ClassClosers(p) : \A k \in ClassClosers(p) : j <= k

ClassMembers(p) == {p[j] : j \in ClassStart(p)..(ClassEnd(p) - 1)}

ClassNegated(p) == ClassStart(p) = 3

RECURSIVE Malformed(_)
\* the pattern has a syntax error somewhere: Match answers ErrBadPattern
Malformed(p) ==
    IF p = <<>> THEN FALSE
    ELSE IF p[1] = "[" THEN
        IF BadClass(p) THEN TRUE ELSE Malformed(SubSeq(p, ClassEnd(p) + 1, Len(p)))
    ELSE Malformed(Tail(p))

RECURSIVE GlobMatches(_, _)
\* a well-formed pattern p matches the whole of name s
GlobMatches(p, s) ==
    IF p = <<>> THEN s = <<>>
    ELSE IF p[1] = "*" THEN
        \/ GlobMatches(Tail(p), s)
        \/ (s # <<>> /\ s[1] # "/" /\ GlobMatches(p, Tail(s)))
    ELSE IF p[1] = "?" THEN
        s # <<>> /\ s[1] # "/" /\ GlobMatches(Tail(p), Tail(s))
    ELSE IF p[1] = "[" THEN
        /\ s # <<>>
        /\ (s[1] \in ClassMembers(p)) # ClassNegated(p)
        /\ GlobMatches(SubSeq(p, ClassEnd(p) + 1, Len(p)), Tail(s))
    ELSE s # <<>> /\ s[1] = p[1] /\ GlobMatches(Tail(p), Tail(s))

\* filepath.Match(pattern, name): (matched, err)
Match(pattern, name) ==
    IF Malformed(pattern) THEN [ok |-> FALSE, err |-> TRUE]
    ELSE [ok |-> GlobMatches(pattern, name), err |-> FALSE]

\* variant: a pattern error ends the inner loop instead of skipping the pattern
RECURSIVE ignoredBreakOnError(_, _)
ignoredBreakOnError(pkg, spaces) ==
    IF spaces = <<>> THEN FALSE
    ELSE LET m == Match(spaces[1], pkg) IN
         IF m.err THEN FALSE
         ELSE IF m.ok THEN TRUE
         ELSE ignoredBreakOnError(pkg, Tail(spaces))

RECURSIVE ignored(_, _)
\* the inner loop of removeSafe: an error skips the pattern, a match stops
ignored(pkg, spaces) ==
    IF spaces = <<>> THEN FALSE
    ELSE LET m == Match(spaces[1], pkg) IN
         IF m.err THEN ignored(pkg, Tail(spaces))
         ELSE IF m.ok THEN TRUE
         ELSE ignored(pkg, Tail(spaces))

RECURSIVE removeSafeLoop(_, _)
removeSafeLoop(packages, spaces) ==
    IF packages = <<>> THEN <<>>
    ELSE (IF ignored(packages[1], spaces) THEN <<>> ELSE <<packages[1]>>)
         \o removeSafeLoop(Tail(packages), spaces)

\* removeSafe (cmd) and Client.removeSafe (GitHub): the same code twice
removeSafe(packages, spaces) ==
    IF Len(spaces) = 0 THEN packages ELSE removeSafeLoop(packages, spaces)

-----------------------------------------------------------------------------
(* Composer: classification of a version specifier *)

localReference(pkgversion) == HasPrefix(ToLower(pkgversion), <<"f","i","l","e",":">>)

urlReference(pkgversion) ==
    \/ HasPrefix(ToLower(pkgversion), <<"h","t","t","p",":">>)
    \/ HasPrefix(ToLower(pkgversion), <<"h","t","t","p","s",":">>)

gitResources ==
    { <<"g","i","t","+","s","s","h",":">>, <<"g","i","t","+","h","t","t","p",":">>,
      <<"g","i","t","+","h","t","t","p","s",":">>, <<"g","i","t",":">> }

\* variant: the prefixes compared without folding the case
gitReferenceCaseSensitive(pkgversion) == \E r \in gitResources : HasPrefix(pkgversion, r)

gitReference(pkgversion) == \E r \in gitResources : HasPrefix(ToLower(pkgversion), r)

\* the condition of the `continue` in ComposerLookup.PackagesNotInPublic
SkippedReference(lang, pkg) ==
    /\ lang = "composer"
    /\ (localReference(pkg.Version) \/ urlReference(pkg.Version) \/ gitReference(pkg.Version))

-----------------------------------------------------------------------------
(* Inputs: manifests, registry answers, safe spaces *)

\* longest manifest (number of package references) explored
MaxPkgs == 2

\* identifiers
N_cf == <<"@","c","/","f">>
N_of == <<"@","o","/","f">>
N_l  == <<"l">>

Names == {N_cf, N_of, N_l}

\* composer version specifiers: registry constraints, near misses of the
\* prefixes, and every non-registry prefix (one in upper case)
RegistryVersions == { <<"^","3">>, <<"f","i","l","e">>, <<"g","i","t","x",":">> }

PinnedVersions ==
    { <<"f","i","l","e",":","x">>, <<"F","I","L","E",":","x">>,
      <<"h","t","t","p",":","x">>, <<"h","t","t","p","s",":","x">>,
      <<"g","i","t",":","x">>, <<"g","i","t","+","s","s","h",":","x">>,
      <<"g","i","t","+","h","t","t","p",":","x">>,
      <<"g","i","t","+","h","t","t","p","s",":","x">>,
      <<"G","i","t","+","H","T","T","P","S",":","x">> }

ComposerVersions == RegistryVersions \cup PinnedVersions

\* ComposerPackage{Name, Version}
ComposerPackages ==
    [Name : {N_cf}, Version : ComposerVersions]
      \cup {[Name |-> N_l, Version |-> <<"^","3">>]}

\* MVNPackage{Group, Artifact, Version}; an empty Group is never looked up
MVNPackages == [Group : {<<>>, <<"c",".","f">>}, Artifact : {<<"a">>, <<"b">>},
                Version : {<<"1">>}]

\* the package universe of a resolver (PythonLookup.Packages holds names)
Universe(lang) ==
    CASE lang = "pip" -> Names
      [] lang = "composer" -> ComposerPackages
      [] lang = "mvn" -> MVNPackages

\* the packages the scan-level runs draw from
ScanUniverse(lang) ==
    CASE lang = "pip" -> {N_cf, N_l}
      [] lang = "composer" ->
           [Name : {N_cf, N_l}, Version : {<<"^","3">>}]
             \cup {[Name |-> N_of, Version |-> <<"f","i","l","e",":","x">>]}
      [] lang = "mvn" ->
           [Group : {<<>>, <<"c",".","f">>}, Artifact : {<<"a">>}, Version : {<<"1">>}]
             \cup {[Group |-> <<"c",".","f">>, Artifact |-> <<"b">>, Version |-> <<"1">>]}

SeqsUpTo(S, n) == UNION {[1..k -> S] : k \in 0..n}

Languages == {"pip", "composer", "mvn"}

ScanTypes == {"file", "github", "web"}

\* what one http.Get can produce: a transport error, or a response with a
\* status code ("200u": a 200 whose body says every version is unpublished)
Responses == {"err", "200", "200u", "404", "429"}

StatusCode(resp) == IF resp = "200u" THEN "200" ELSE resp

\* safe-space patterns: @c/*, *, a malformed one, a class
P_c     == <<"@","c","/","*">>
P_star  == <<"*">>
P_bad   == <<"@","c","/","[">>
P_class == <<"@","[","c","o","]","/","f">>

SafeSpaceLists == { <<>>, <<P_c>>, <<P_bad, P_c>>, <<P_star>>, <<P_bad>> }

\* the name a resolver reports for a package
ReportedName(lang, pkg) ==
    CASE lang = "pip" -> pkg
      [] lang = "composer" -> pkg.Name
      [] lang = "mvn" -> pkg.Group \o <<"/">> \o pkg.Artifact

-----------------------------------------------------------------------------
(* ScanResult *)

NewScanResult == [Vulnerable |-> <<>>, Safe |-> <<>>, Total |-> 0, finalized |-> FALSE]

AddVulnerable(sr, pkg) == [sr EXCEPT !.Vulnerable = Append(@, pkg)]

AddSafe(sr, pkg) == [sr EXCEPT !.Safe = Append(@, pkg)]

Finalize(sr) == [sr EXCEPT !.Total = Len(sr.Vulnerable) + Len(sr.Safe), !.finalized = TRUE]

RECURSIVE AddAllVulnerable(_, _)
\* for _, pkg := range vulnerablePackages { result.AddVulnerable(pkg) }
AddAllVulnerable(sr, pkgs) ==
    IF pkgs = <<>> THEN sr
    ELSE AddAllVulnerable(AddVulnerable(sr, pkgs[1]), Tail(pkgs))

-----------------------------------------------------------------------------
(* Registry resolvers *)

\* retries allowed by the guard `retry > 3` of isAvailableInPublic
MaxRetry == 3

\* NpmResponse.NotAvailable on the body of a 200 answer (maven decodes the
\* body as an npm document)
NotAvailable(resp) == resp = "200u"

\* the resolver retries a 429 (composer, maven); pip has no such branch
RetriesOn429(lang) == lang \in {"composer", "mvn"}

\* variant: every resolver inspects the body for unpublished versions
AvailableOn200Unpublished(lang, resp) == ~NotAvailable(resp)

\* the answer of isAvailableInPublic to a response with status 200
AvailableOn200(lang, resp) == IF lang = "mvn" THEN ~NotAvailable(resp) ELSE TRUE

\* the state a scan starts in: the manifest has been parsed into Packages
ScanStart ==
    /\ pc = "loop"
    /\ idx = 1
    /\ retry = 0
    /\ requests = 0
    /\ sleeps = 0
    /\ last = [i \in 1..Len(Packages) |-> "none"]
    /\ notavail = <<>>
    /\ notavailIdx = <<>>
    /\ result = NewScanResult

\* no scan of a manifest is running
ScanIdle ==
    /\ scanType = "file" /\ language = "pip" /\ safeSpaces = <<>> /\ Packages = <<>>
    /\ pc = "done" /\ idx = 1 /\ retry = 0 /\ requests = 0 /\ sleeps = 0
    /\ last = <<>> /\ notavail = <<>> /\ notavailIdx = <<>>
    /\ result = NewScanResult

\* no call of removeSafe alone is running
SafeIdle ==
    /\ rsPackages = <<>> /\ rsSafeSpaces = <<>> /\ retSlice = <<>> /\ rsPc = "returned"

\* no organization scan is running
OrgIdle ==
    /\ repos = <<>> /\ failing = {} /\ workers = 0 /\ orgPc = "returned"
    /\ submitted = 0 /\ collected = 0 /\ jobQueue = <<>> /\ closed = FALSE
    /\ cancelled = FALSE /\ wstate = <<>> /\ wjob = <<>> /\ wbatch = <<>>
    /\ resultsChan = <<>> /\ allResults = <<>> /\ warned = {} /\ orgErr = FALSE

\* resolver runs: every manifest over the full package universe, scanned
\* as a local file without safe spaces
InitResolver ==
    /\ scanType = "file"
    /\ language \in Languages
    /\ safeSpaces = <<>>
    /\ Packages \in SeqsUpTo(Universe(language), MaxPkgs)
    /\ ScanStart
    /\ SafeIdle /\ OrgIdle /\ ExtIdle

\* scans: every scan type and safe-space list, over registry references and
\* one pinned composer reference
InitScan ==
    /\ scanType \in ScanTypes
    /\ language \in Languages
    /\ safeSpaces \in SafeSpaceLists
    /\ Packages \in SeqsUpTo(ScanUniverse(language), MaxPkgs)
    /\ ScanStart
    /\ SafeIdle /\ OrgIdle /\ ExtIdle

\* variant: a name already in notavail is not appended again
ReturnDistinct(available) ==
    /\ notavail' = IF available \/ \E k \in DOMAIN notavail :
                                      notavail[k] = ReportedName(language, Packages[idx])
                   THEN notavail
                   ELSE Append(notavail, ReportedName(language, Packages[idx]))
    /\ notavailIdx' = IF notavail' = notavail THEN notavailIdx ELSE Append(notavailIdx, idx)
    /\ idx' = idx + 1
    /\ pc' = "loop"

\* return from isAvailableInPublic into the range loop of PackagesNotInPublic
Return(available) ==
    /\ notavail' = IF available THEN notavail
                   ELSE Append(notavail, ReportedName(language, Packages[idx]))
    /\ notavailIdx' = IF available THEN notavailIdx ELSE Append(notavailIdx, idx)
    /\ idx' = idx + 1
    /\ pc' = "loop"

\* composer: a local, URL or git reference is passed over (`continue`)
SkipReference ==
    /\ pc = "loop" /\ idx <= Len(Packages)
    /\ SkippedReference(language, Packages[idx])
    /\ idx' = idx + 1
    /\ requests' = 0 /\ sleeps' = 0 /\ retry' = 0
    /\ UNCHANGED <<scanType, language, safeSpaces, Packages, pc, last, notavail,
                   notavailIdx, result>>
    /\ UNCHANGED <<safeVars, orgVars, extVars>>

\* the loop body calls isAvailableInPublic(pkg, 0)
CallIsAvailable ==
    /\ pc = "loop" /\ idx <= Len(Packages)
    /\ ~SkippedReference(language, Packages[idx])
    /\ pc' = "check"
    /\ retry' = 0 /\ requests' = 0 /\ sleeps' = 0
    /\ UNCHANGED <<scanType, language, safeSpaces, Packages, idx, last, notavail,
                   notavailIdx, result>>
    /\ UNCHANGED <<safeVars, orgVars, extVars>>

\* `if retry > 3 { return false }`
RetriesExhausted ==
    /\ pc = "check"
    /\ RetriesOn429(language) /\ retry > MaxRetry
    /\ Return(FALSE)
    /\ UNCHANGED <<scanType, language, safeSpaces, Packages, retry, requests, sleeps,
                   last, result>>
    /\ UNCHANGED <<safeVars, orgVars, extVars>>

\* maven: `if pkg.Group == "" { return true }`
EmptyGroup ==
    /\ pc = "check"
    /\ language = "mvn" /\ retry <= MaxRetry
    /\ Packages[idx].Group = <<>>
    /\ Return(TRUE)
    /\ UNCHANGED <<scanType, language, safeSpaces, Packages, retry, requests, sleeps,
                   last, result>>
    /\ UNCHANGED <<safeVars, orgVars, extVars>>

\* variant: a transport error is retried like a 429
OutcomeRetryingErrors(lang, resp) ==
    IF StatusCode(resp) = "200" THEN
        (IF AvailableOn200(lang, resp) THEN "available" ELSE "unavailable")
    ELSE IF resp \in {"429", "err"} /\ RetriesOn429(lang) THEN "retry"
    ELSE "unavailable"

\* the if-chain after http.Get: "unavailable" on a transport error,
\* on 200 the resolver's verdict, "retry" on a 429 where the resolver has
\* that branch, "unavailable" on anything else
Outcome(lang, resp) ==
    IF resp = "err" THEN "unavailable"
    ELSE IF StatusCode(resp) = "200" THEN
        (IF AvailableOn200(lang, resp) THEN "available" ELSE "unavailable")
    ELSE IF StatusCode(resp) = "429" /\ RetriesOn429(lang) THEN "retry"
    ELSE "unavailable"

\* http.Get and the handling of what it produced
HttpGet(resp) ==
    /\ pc = "check"
    /\ RetriesOn429(language) => retry <= MaxRetry
    /\ language = "mvn" => Packages[idx].Group # <<>>
    /\ requests' = requests + 1
    /\ last' = [last EXCEPT ![idx] = resp]
    /\ IF Outcome(language, resp) = "retry" THEN
           \* time.Sleep(10 * time.Second); retry = retry + 1; recursive call
           /\ sleeps' = sleeps + 1
           /\ retry' = retry + 1
           /\ UNCHANGED <<pc, idx, notavail, notavailIdx>>
       ELSE
           /\ Return(Outcome(language, resp) = "available")
           /\ UNCHANGED <<retry, sleeps>>
    /\ UNCHANGED <<scanType, language, safeSpaces, Packages, result>>
    /\ UNCHANGED <<safeVars, orgVars, extVars>>

\* the handler after PackagesNotInPublic returned: runScanCommand and the
\* GitHub scanDependencyFile remove the safe spaces, the web one does not
VulnerablePackages(type, na, spaces) ==
    IF type = "web" THEN na ELSE removeSafe(na, spaces)

FinishScan ==
    /\ pc = "loop" /\ idx > Len(Packages)
    /\ result' = Finalize(AddAllVulnerable(result,
                              VulnerablePackages(scanType, notavail, safeSpaces)))
    /\ pc' = "done"
    /\ UNCHANGED <<scanType, language, safeSpaces, Packages, idx, retry, requests,
                   sleeps, last, notavail, notavailIdx>>
    /\ UNCHANGED <<safeVars, orgVars, extVars>>

NextScan ==
    \/ SkipReference
    \/ CallIsAvailable
    \/ RetriesExhausted
    \/ EmptyGroup
    \/ \E resp \in Responses : HttpGet(resp)
    \/ FinishScan

Init == InitScan

Next == NextScan

\* the scans of one manifest, of every type
Spec == Init /\ [][Next]_vars

\* the resolvers alone, over the full package universe
SpecResolver == InitResolver /\ [][NextScan]_vars

-----------------------------------------------------------------------------
(* Properties of the resolvers and of the scans *)

Range(s) == {s[i] : i \in 1..Len(s)}

\* the references the range loop has finished with
Decided == 1..(idx - 1)

\* the version prefixes that mark a composer reference as not from the registry
PinnedPrefixes ==
    { <<"f","i","l","e",":">>, <<"h","t","t","p",":">>, <<"h","t","t","p","s",":">>,
      <<"g","i","t",":">>, <<"g","i","t","+","s","s","h",":">>,
      <<"g","i","t","+","h","t","t","p",":">>, <<"g","i","t","+","h","t","t","p","s",":">> }

NonRegistry(version) == \E p \in PinnedPrefixes : HasPrefix(ToLower(version), p)

\* C1 (as claimed): a composer or maven reference is asked for at most three
\* times, however often the registry answers 429.
C1_AtMostThreeRequests ==
    language \in {"composer", "mvn"} => requests <= 3

\* C2: a composer reference whose version specifier is a file:, http(s): or
\* git reference (in any case) is never requested from the registry and never
\* produces an entry of the returned list; the entries of the list are the
\* names of registry references, and every registry reference is resolved.
C2_PinnedNeverChecked ==
    language = "composer" =>
        /\ \A i \in 1..Len(Packages) :
               NonRegistry(Packages[i].Version) =>
                   last[i] = "none" /\ i \notin Range(notavailIdx)
        /\ \A k \in 1..Len(notavail) :
               /\ notavail[k] = Packages[notavailIdx[k]].Name
               /\ ~NonRegistry(Packages[notavailIdx[k]].Version)
        /\ \A i \in Decided :
               ~NonRegistry(Packages[i].Version) => last[i] # "none"

\* C2 witness: scenario B with the registry answering; the registry
\* reference was resolved (and reported), the git reference in upper case
\* was passed over.
C2_Witness ==
    /\ pc = "done" /\ language = "composer" /\ Len(Packages) = 2
    /\ Packages[1].Version = <<"^","3">> /\ last[1] = "404"
    /\ Packages[2].Version = <<"G","i","t","+","H","T","T","P","S",":","x">>
    /\ notavailIdx = <<1>>

\* C3: a registry reference checked by pip or composer is in the returned
\* list exactly when the last answer of the registry was not a 200.
C3_ReportedIffNot200 ==
    language \in {"pip", "composer"} =>
        \A i \in Decided :
            last[i] # "none" =>
                ((i \in Range(notavailIdx)) <=> (StatusCode(last[i]) # "200"))

\* C3 witness: a pip manifest of two, the first answered 200 and kept out,
\* the second answered 404 and reported.
C3_Witness ==
    /\ pc = "done" /\ language = "pip" /\ Len(Packages) = 2
    /\ last = <<"200", "404">> /\ notavailIdx = <<2>>

\* C4: a transport error ends the check at once: the reference is reported
\* unavailable, the failed request is the last one for it (one request if
\* no 429 came before, one per 429 plus one otherwise), and no sleep
\* follows the error.
C4_ErrorIsFinal ==
    /\ \A i \in Decided : last[i] = "err" => i \in Range(notavailIdx)
    /\ pc = "check" => last[idx] \in {"none", "429"}
    /\ (pc = "loop" /\ idx > 1 /\ last[idx - 1] = "err") => requests = sleeps + 1

\* C4 witness: maven, two 429 answers and then a transport error.
C4_Witness ==
    /\ pc = "loop" /\ language = "mvn" /\ idx = 2
    /\ last[1] = "err" /\ requests = 3 /\ sleeps = 2 /\ notavailIdx = <<1>>

\* C5 (as claimed): pip does not decide on a 429: a pip reference whose last
\* answer is 429 has been retried after a backoff.
C5_PipRetries429 ==
    (language = "pip" /\ pc = "loop" /\ idx > 1 /\ last[idx - 1] = "429")
        => (requests >= 2 /\ sleeps >= 1)

\* names of the references the registry reported present, in manifest order
RECURSIVE PresentNames(_)
PresentNames(i) ==
    IF i > Len(Packages) THEN <<>>
    ELSE (IF i \in Range(notavailIdx) THEN <<>>
          ELSE <<ReportedName(language, Packages[i])>>) \o PresentNames(i + 1)

\* C6 (as claimed): a finished local-file scan without safe spaces of a
\* manifest of registry references partitions it: vulnerable holds the
\* missing identifiers, safe the present ones, total counts them all.
C6_ResultPartitionsManifest ==
    (/\ pc = "done" /\ scanType = "file" /\ safeSpaces = <<>>
     /\ \A i \in 1..Len(Packages) : last[i] # "none")
        => /\ result.Vulnerable = notavail
           /\ result.Safe = PresentNames(1)
           /\ result.Total = Len(Packages)

\* a well-formed safe-space pattern matches the identifier
MatchesSafeSpace(pkg, spaces) ==
    \E k \in 1..Len(spaces) : ~Malformed(spaces[k]) /\ GlobMatches(spaces[k], pkg)

\* C8 (as claimed): in every finished scan, of whatever type, no vulnerable
\* identifier matches a configured safe-space pattern.
C8_NoSafeSpaceInVulnerable ==
    pc = "done" =>
        \A k \in 1..Len(result.Vulnerable) :
            ~MatchesSafeSpace(result.Vulnerable[k], safeSpaces)

-----------------------------------------------------------------------------
(* removeSafe on its own *)

\* longest list of identifiers and of patterns handed to removeSafe
MaxVulnerable == 2
MaxSpaces == 2

N_deep == <<"@","c","/","f","/","g">>
P_q    == <<"@","?","/","f">>
P_neg  == <<"[","^","@","]">>

SafeNames == {N_cf, N_of, N_l, N_deep}

Patterns == {P_c, P_star, P_bad, P_class, P_q, P_neg}

InitSafe ==
    /\ rsPackages \in SeqsUpTo(SafeNames, MaxVulnerable)
    /\ rsSafeSpaces \in SeqsUpTo(Patterns, MaxSpaces)
    /\ retSlice = <<>>
    /\ rsPc = "call"
    /\ ScanIdle /\ OrgIdle /\ ExtIdle

RemoveSafe ==
    /\ rsPc = "call"
    /\ retSlice' = removeSafe(rsPackages, rsSafeSpaces)
    /\ rsPc' = "returned"
    /\ UNCHANGED <<rsPackages, rsSafeSpaces>>
    /\ UNCHANGED <<resolverVars, orgVars, extVars>>

NextSafe == RemoveSafe

SpecSafe == InitSafe /\ [][NextSafe]_vars

\* C7: removeSafe returns, in the original order, exactly the identifiers
\* that no well-formed pattern matches; a malformed pattern matches nothing
\* and stops nothing; without patterns the input comes back unchanged.
C7_RemoveSafeFilters ==
    rsPc = "returned" =>
        LET Kept(pkg) == ~MatchesSafeSpace(pkg, rsSafeSpaces) IN
        /\ retSlice = SelectSeq(rsPackages, Kept)
        /\ rsSafeSpaces = <<>> => retSlice = rsPackages

\* C7 witness: a malformed pattern before @c/*: @c/f is removed, @o/f stays.
C7_Witness ==
    /\ rsPc = "returned"
    /\ rsPackages = <<N_cf, N_of>> /\ rsSafeSpaces = <<P_bad, P_c>>
    /\ retSlice = <<N_of>>

-----------------------------------------------------------------------------
(* ScanOrganization on a WorkerPool.  The goroutines are the caller (the    *)
(* body of ScanOrganization) and the pool's workers; a step is one channel   *)
(* operation or one call of ScanRepository.  Nothing ever calls the pool's   *)
(* cancel function, so the ctx.Done() cases of Submit and worker never fire: *)
(* cancelled stays FALSE.                                                    *)

\* most repositories an organization lists, largest pool
MaxRepos == 4
MaxWorkers == 2

\* variant: a queue of at least one slot
QueueCapAtLeastOne(n) == IF n = 0 THEN 1 ELSE n * 2

\* variant: the queue takes one job more than twice the workers
QueueCapOneMore(n) == n * 2 + 1

\* make(chan func(), workers*2)
QueueCap(n) == n * 2

\* variant: an unbuffered results channel
ResultsCapUnbuffered(n) == 0

\* make(chan []*types.ScanResult, len(repos))
ResultsCap(n) == n

\* `repo := repo`: the i-th job scans the i-th repository
CapturedRepo(rs, i) == rs[i]

\* what a successful ScanRepository returns: one ScanResult per manifest
\* found; repositories with an odd number hold two manifests, the others one
RepositoryResults(repo) ==
    [k \in 1..(1 + (repo % 2)) |-> [repo |-> repo, manifest |-> k]]

\* variant: the job sends the repository's results whether or not the scan failed
JobBatchIgnoringFailure(repo, failed) == RepositoryResults(repo)

\* the batch a job sends: empty after a failed ScanRepository
JobBatch(repo, failed) == IF failed THEN <<>> ELSE RepositoryResults(repo)

Workers == 1..workers

InitOrg ==
    /\ repos \in {[i \in 1..n |-> i] : n \in 0..MaxRepos}
    /\ failing \in SUBSET Range(repos)
    /\ workers \in 0..MaxWorkers
    /\ orgPc = "list"
    /\ submitted = 0 /\ collected = 0
    /\ jobQueue = <<>> /\ closed = FALSE /\ cancelled = FALSE
    /\ wstate = [w \in Workers |-> "new"]
    /\ wjob = [w \in Workers |-> 0]
    /\ wbatch = [w \in Workers |-> <<>>]
    /\ resultsChan = <<>> /\ allResults = <<>>
    /\ warned = {} /\ orgErr = FALSE
    /\ ScanIdle /\ SafeIdle /\ ExtIdle

\* where the caller is once `done` of the submit loop's iterations are over
AfterSubmit(done) ==
    IF done < Len(repos) THEN "submit"
    ELSE IF Len(repos) > 0 THEN "collect" ELSE "stop"

\* getOrganizationRepos fails: ScanOrganization returns the error
ListReposFails ==
    /\ orgPc = "list"
    /\ orgErr' = TRUE
    /\ orgPc' = "returned"
    /\ UNCHANGED <<repos, failing, workers, submitted, collected, jobQueue, closed,
                   cancelled, wstate, wjob, wbatch, resultsChan, allResults, warned>>
    /\ UNCHANGED <<resolverVars, safeVars, extVars>>

\* getOrganizationRepos succeeds; NewWorkerPool, Start (one goroutine per
\* worker), the results channel is made
StartPool ==
    /\ orgPc = "list"
    /\ wstate' = [w \in Workers |-> "idle"]
    /\ orgPc' = AfterSubmit(0)
    /\ UNCHANGED <<repos, failing, workers, submitted, collected, jobQueue, closed,
                   cancelled, wjob, wbatch, resultsChan, allResults, warned, orgErr>>
    /\ UNCHANGED <<resolverVars, safeVars, extVars>>

\* workerPool.Submit: the send on jobQueue, possible while the queue has room
Submit ==
    /\ orgPc = "submit"
    /\ Len(jobQueue) < QueueCap(workers)
    /\ jobQueue' = Append(jobQueue, CapturedRepo(repos, submitted + 1))
    /\ submitted' = submitted + 1
    /\ orgPc' = AfterSubmit(submitted + 1)
    /\ UNCHANGED <<repos, failing, workers, collected, closed, cancelled, wstate, wjob,
                   wbatch, resultsChan, allResults, warned, orgErr>>
    /\ UNCHANGED <<resolverVars, safeVars, extVars>>

\* repoResults := <-resultsChan; allResults = append(allResults, repoResults...)
Collect ==
    /\ orgPc = "collect"
    /\ resultsChan # <<>>
    /\ allResults' = allResults \o Head(resultsChan)
    /\ resultsChan' = Tail(resultsChan)
    /\ collected' = collected + 1
    /\ orgPc' = IF collected + 1 < Len(repos) THEN "collect" ELSE "stop"
    /\ UNCHANGED <<repos, failing, workers, submitted, jobQueue, closed, cancelled,
                   wstate, wjob, wbatch, warned, orgErr>>
    /\ UNCHANGED <<resolverVars, safeVars, extVars>>

\* return allResults, nil runs the deferred Stop: close(wp.jobQueue)
StopClose ==
    /\ orgPc = "stop"
    /\ closed' = TRUE
    /\ orgPc' = "wait"
    /\ UNCHANGED <<repos, failing, workers, submitted, collected, jobQueue, cancelled,
                   wstate, wjob, wbatch, resultsChan, allResults, warned, orgErr>>
    /\ UNCHANGED <<resolverVars, safeVars, extVars>>

\* wp.wg.Wait() returns once every worker has exited; ScanOrganization returns
StopWait ==
    /\ orgPc = "wait"
    /\ \A w \in Workers : wstate[w] = "exited"
    /\ orgPc' = "returned"
    /\ UNCHANGED <<repos, failing, workers, submitted, collected, jobQueue, closed,
                   cancelled, wstate, wjob, wbatch, resultsChan, allResults, warned,
                   orgErr>>
    /\ UNCHANGED <<resolverVars, safeVars, extVars>>

\* worker: `case job, ok := <-wp.jobQueue` with a job, then job(): the
\* closure calls gc.ScanRepository, which returns with an error for a
\* failing repository (logged as a warning), and comes to its send
RunJob(w) ==
    /\ w \in Workers
    /\ wstate[w] = "idle"
    /\ jobQueue # <<>>
    /\ LET repo == Head(jobQueue) IN
           /\ wjob' = [wjob EXCEPT ![w] = repo]
           /\ wbatch' = [wbatch EXCEPT ![w] = JobBatch(repo, repo \in failing)]
           /\ warned' = IF repo \in failing THEN warned \cup {repo} ELSE warned
    /\ jobQueue' = Tail(jobQueue)
    /\ wstate' = [wstate EXCEPT ![w] = "sending"]
    /\ UNCHANGED <<repos, failing, workers, orgPc, submitted, collected, closed,
                   cancelled, resultsChan, allResults, orgErr>>
    /\ UNCHANGED <<resolverVars, safeVars, extVars>>

\* worker: the receive on the closed, drained queue yields !ok: return
WorkerExit(w) ==
    /\ w \in Workers
    /\ wstate[w] = "idle"
    /\ jobQueue = <<>> /\ closed
    /\ wstate' = [wstate EXCEPT ![w] = "exited"]
    /\ UNCHANGED <<repos, failing, workers, orgPc, submitted, collected, jobQueue,
                   closed, cancelled, wjob, wbatch, resultsChan, allResults, warned,
                   orgErr>>
    /\ UNCHANGED <<resolverVars, safeVars, extVars>>

\* the job: the send on resultsChan, possible while the channel has room
SendBatch(w) ==
    /\ w \in Workers
    /\ wstate[w] = "sending"
    /\ Len(resultsChan) < ResultsCap(Len(repos))
    /\ resultsChan' = Append(resultsChan, wbatch[w])
    /\ wstate' = [wstate EXCEPT ![w] = "idle"]
    /\ wjob' = [wjob EXCEPT ![w] = 0]
    /\ wbatch' = [wbatch EXCEPT ![w] = <<>>]
    /\ UNCHANGED <<repos, failing, workers, orgPc, submitted, collected, jobQueue,
                   closed, cancelled, allResults, warned, orgErr>>
    /\ UNCHANGED <<resolverVars, safeVars, extVars>>

\* the steps of the goroutine that runs ScanOrganization
CallerNext ==
    \/ ListReposFails
    \/ StartPool
    \/ Submit
    \/ Collect
    \/ StopClose
    \/ StopWait

\* the steps of worker goroutine w
WorkerNext(w) ==
    \/ RunJob(w)
    \/ WorkerExit(w)
    \/ SendBatch(w)

NextOrg ==
    \/ CallerNext
    \/ \E w \in 1..MaxWorkers : WorkerNext(w)

SpecOrg == InitOrg /\ [][NextOrg]_vars

\* the Go scheduler runs every goroutine that can take a step, and every
\* ScanRepository call returns
FairSpecOrg ==
    /\ SpecOrg
    /\ WF_vars(CallerNext)
    /\ \A w \in 1..MaxWorkers : WF_vars(WorkerNext(w))

-----------------------------------------------------------------------------
(* Properties of the organization scan *)

\* ScanOrganization has returned its aggregate: every job was submitted,
\* every batch received, the queue closed and every worker gone
OrgScanComplete ==
    /\ orgPc = "returned" /\ ~orgErr
    /\ submitted = Len(repos) /\ collected = Len(repos)
    /\ closed /\ jobQueue = <<>>
    /\ \A w \in Workers : wstate[w] = "exited"

\* C9: with a pool of at least one worker, whatever the number of
\* repositories, ScanOrganization returns: every Submit returns, one batch
\* per repository is received, and the deferred Stop returns (or the
\* listing failed and the error was returned before any of this).
C9_OrgScanReturns ==
    (workers >= 1) ~> (OrgScanComplete \/ (orgPc = "returned" /\ orgErr))

\* C9 witness: one worker (queue of two) and four repositories, returned.
C9_Witness ==
    OrgScanComplete /\ workers = 1 /\ Len(repos) = 4

\* number of times x occurs in the sequence s
Occurrences(s, x) == Cardinality({i \in 1..Len(s) : s[i] = x})

\* C10: a failing repository contributes nothing but a warning and stops
\* nothing: the returned aggregate holds every result of every other
\* repository exactly once and nothing else, a warning was logged for each
\* failing repository and for no other, and no error is returned once the
\* listing has succeeded.
C10_FailureIsolated ==
    /\ (orgPc = "returned" /\ ~orgErr) =>
           /\ \A r \in Range(repos) \ failing :
                  \A x \in Range(RepositoryResults(r)) : Occurrences(allResults, x) = 1
           /\ \A i \in 1..Len(allResults) : allResults[i].repo \in Range(repos) \ failing
           /\ warned = failing
    /\ orgErr => (submitted = 0 /\ \A w \in Workers : wstate[w] = "new")

\* C10 witness: four repositories of which the third fails.
C10_Witness ==
    /\ orgPc = "returned" /\ ~orgErr
    /\ Len(repos) = 4 /\ failing = {3}
    /\ {allResults[i].repo : i \in 1..Len(allResults)} = {1, 2, 4}
    /\ warned = {3}

-----------------------------------------------------------------------------
(* processWebTargetsWithWorkers: the web scan of several targets *)

MaxTargets == 3
MaxWebWorkers == 2

\* the results ScanTarget returns for a target that can be scanned: one per
\* dependency file found there
TargetResults(target) ==
    [k \in 1..(1 + (target % 2)) |-> [target |-> target, path |-> k]]

\* variant: the results found before the failure are sent all the same
TargetBatchDespiteFailure(target, failed) == TargetResults(target)

\* the batch a worker sends: empty after a failed ScanTarget
TargetBatch(target, failed) == IF failed THEN <<>> ELSE TargetResults(target)

\* make(chan string, len(targets)), make(chan []*types.ScanResult, len(targets))
TargetCap(n) == n

WebWorkers == 1..wtWorkers

\* variant: the wait group is released only after some worker has finished
WaitNeedsWorker(ws) == ws # <<>> /\ \A w \in DOMAIN ws : ws[w] = "exited"

\* variant: the wait group is released by the first worker that finishes
WaitReturnsEarly(ws) == \E w \in DOMAIN ws : ws[w] = "exited"

\* wg.Wait() returns: every worker goroutine has called wg.Done()
WaitReturns(ws) == \A w \in DOMAIN ws : ws[w] = "exited"

\* everything but the state of processWebTargetsWithWorkers is left alone
WebFrame ==
    UNCHANGED <<resolverVars, safeVars, orgVars, poolVars, srVars, ghVars, blobVars,
                parseVars, factoryVars, cmdVars, ctxVars, listVars, targetVars,
                ecoVars, wkVars, detailVars, sfVars>>

\* the call: the channels are made and the worker, sender and closer
\* goroutines are started
InitWeb ==
    /\ wtTargets \in {[i \in 1..n |-> i] : n \in 0..MaxTargets}
    /\ wtFailing \in SUBSET Range(wtTargets)
    /\ wtWorkers \in 0..MaxWebWorkers
    /\ targetChan = <<>> /\ targetsSent = 0 /\ targetsClosed = FALSE
    /\ wtState = [w \in WebWorkers |-> "idle"]
    /\ wtBatch = [w \in WebWorkers |-> <<>>]
    /\ resultChan = <<>> /\ resultClosed = FALSE
    /\ wtAll = <<>> /\ wtWarned = {} /\ wtPc = "collect"
    /\ wtJob = [w \in WebWorkers |-> 0]
    /\ wtTakes = [t \in Range(wtTargets) |-> 0]
    /\ wtScans = [t \in Range(wtTargets) |-> 0]
    /\ wtSlow \in {0} \cup Range(wtTargets)
    /\ ScanIdle /\ SafeIdle /\ OrgIdle /\ PoolIdle /\ ResultIdle /\ RepoIdle
    /\ BlobIdle /\ ParseIdle
    /\ FactoryIdle
    /\ CommandIdle
    /\ ContextIdle
    /\ ListIdle
    /\ TargetIdle
    /\ EcosystemIdle
    /\ WorkersIdle
    /\ DetailsIdle
    /\ TasksIdle

\* sender goroutine: targetChan <- target
SendTarget ==
    /\ targetsSent < Len(wtTargets)
    /\ Len(targetChan) < TargetCap(Len(wtTargets))
    /\ targetChan' = Append(targetChan, wtTargets[targetsSent + 1])
    /\ targetsSent' = targetsSent + 1
    /\ UNCHANGED <<wtTargets, wtFailing, wtWorkers, targetsClosed, wtState, wtBatch,
                   resultChan, resultClosed, wtAll, wtWarned, wtPc>>
    /\ UNCHANGED <<wtJob, wtTakes, wtScans, wtSlow>>
    /\ WebFrame

\* sender goroutine: close(targetChan)
CloseTargets ==
    /\ targetsSent = Len(wtTargets)
    /\ ~targetsClosed
    /\ targetsClosed' = TRUE
    /\ UNCHANGED <<wtTargets, wtFailing, wtWorkers, targetChan, targetsSent, wtState,
                   wtBatch, resultChan, resultClosed, wtAll, wtWarned, wtPc>>
    /\ UNCHANGED <<wtJob, wtTakes, wtScans, wtSlow>>
    /\ WebFrame

\* variant: a worker receives only while no worker is inside ScanTarget
ReadyWhenNoneScanning(ws, w) == ws[w] = "idle" /\ \A v \in DOMAIN ws : ws[v] # "scanning"

\* a worker goroutine is at the head of its `for target := range targetChan`
Ready(ws, w) == ws[w] = "idle"

\* worker: `for target := range targetChan` yields a target and
\* scanner.ScanTarget is called
TakeTarget(w) ==
    /\ w \in WebWorkers
    /\ Ready(wtState, w)
    /\ targetChan # <<>>
    /\ wtJob' = [wtJob EXCEPT ![w] = Head(targetChan)]
    /\ wtTakes' = [wtTakes EXCEPT ![Head(targetChan)] = @ + 1]
    /\ targetChan' = Tail(targetChan)
    /\ wtState' = [wtState EXCEPT ![w] = "scanning"]
    /\ UNCHANGED <<wtTargets, wtFailing, wtWorkers, targetsSent, targetsClosed,
                   wtBatch, resultChan, resultClosed, wtAll, wtWarned, wtPc>>
    /\ UNCHANGED <<wtScans, wtSlow>>
    /\ WebFrame

\* ScanTarget has returned for the target of worker w, with an error for a
\* failing target (logged as a warning)
ScanReturns(w) ==
    /\ wtState[w] = "scanning"
    /\ LET target == wtJob[w] IN
           /\ wtBatch' = [wtBatch EXCEPT ![w] = TargetBatch(target, target \in wtFailing)]
           /\ wtWarned' = IF target \in wtFailing THEN wtWarned \cup {target} ELSE wtWarned
           /\ wtScans' = [wtScans EXCEPT ![target] = @ + 1]
    /\ wtState' = [wtState EXCEPT ![w] = "sending"]
    /\ UNCHANGED <<wtTargets, wtFailing, wtWorkers, targetChan, targetsSent,
                   targetsClosed, resultChan, resultClosed, wtAll, wtPc>>
    /\ UNCHANGED <<wtJob, wtTakes, wtSlow>>
    /\ WebFrame

\* worker: ScanTarget returns for a target whose server answers
ScanDone(w) ==
    /\ w \in WebWorkers
    /\ wtState[w] = "scanning" /\ wtJob[w] # wtSlow
    /\ ScanReturns(w)

\* worker: ScanTarget returns for the slow target, whenever that may be
SlowScanDone(w) ==
    /\ w \in WebWorkers
    /\ wtState[w] = "scanning" /\ wtJob[w] = wtSlow
    /\ ScanReturns(w)

\* worker: resultChan <- results
SendResults(w) ==
    /\ w \in WebWorkers
    /\ wtState[w] = "sending"
    /\ Len(resultChan) < TargetCap(Len(wtTargets))
    /\ resultChan' = Append(resultChan, wtBatch[w])
    /\ wtBatch' = [wtBatch EXCEPT ![w] = <<>>]
    /\ wtState' = [wtState EXCEPT ![w] = "idle"]
    /\ wtJob' = [wtJob EXCEPT ![w] = 0]
    /\ UNCHANGED <<wtTargets, wtFailing, wtWorkers, targetChan, targetsSent,
                   targetsClosed, resultClosed, wtAll, wtWarned, wtPc>>
    /\ UNCHANGED <<wtTakes, wtScans, wtSlow>>
    /\ WebFrame

\* worker: the range over the closed, drained targetChan ends; wg.Done()
WebWorkerDone(w) ==
    /\ w \in WebWorkers
    /\ wtState[w] = "idle"
    /\ targetChan = <<>> /\ targetsClosed
    /\ wtState' = [wtState EXCEPT ![w] = "exited"]
    /\ UNCHANGED <<wtTargets, wtFailing, wtWorkers, targetChan, targetsSent,
                   targetsClosed, wtBatch, resultChan, resultClosed, wtAll, wtWarned,
                   wtPc>>
    /\ UNCHANGED <<wtJob, wtTakes, wtScans, wtSlow>>
    /\ WebFrame

\* closer goroutine: wg.Wait() returns, close(resultChan)
CloseResults ==
    /\ wtPc = "collect"
    /\ ~resultClosed
    /\ WaitReturns(wtState)
    /\ resultClosed' = TRUE
    /\ UNCHANGED <<wtTargets, wtFailing, wtWorkers, targetChan, targetsSent,
                   targetsClosed, wtState, wtBatch, resultChan, wtAll, wtWarned, wtPc>>
    /\ UNCHANGED <<wtJob, wtTakes, wtScans, wtSlow>>
    /\ WebFrame

\* `for results := range resultChan`: allResults = append(allResults, results...)
CollectWeb ==
    /\ wtPc = "collect"
    /\ resultChan # <<>>
    /\ wtAll' = wtAll \o Head(resultChan)
    /\ resultChan' = Tail(resultChan)
    /\ UNCHANGED <<wtTargets, wtFailing, wtWorkers, targetChan, targetsSent,
                   targetsClosed, wtState, wtBatch, resultClosed, wtWarned, wtPc>>
    /\ UNCHANGED <<wtJob, wtTakes, wtScans, wtSlow>>
    /\ WebFrame

\* the range over the closed, drained resultChan ends: return allResults, nil
ReturnWeb ==
    /\ wtPc = "collect"
    /\ resultChan = <<>> /\ resultClosed
    /\ wtPc' = "returned"
    /\ UNCHANGED <<wtTargets, wtFailing, wtWorkers, targetChan, targetsSent,
                   targetsClosed, wtState, wtBatch, resultChan, resultClosed, wtAll,
                   wtWarned>>
    /\ UNCHANGED <<wtJob, wtTakes, wtScans, wtSlow>>
    /\ WebFrame

NextWeb ==
    \/ SendTarget
    \/ CloseTargets
    \/ CloseResults
    \/ CollectWeb
    \/ ReturnWeb
    \/ \E w \in 1..MaxWebWorkers :
           \/ TakeTarget(w)
           \/ ScanDone(w)
           \/ SlowScanDone(w)
           \/ SendResults(w)
           \/ WebWorkerDone(w)

SpecWeb == InitWeb /\ [][NextWeb]_vars

\* a batch of repositories or a batch of web targets, run through its pool
InitBatch == InitOrg \/ InitWeb

NextBatch == NextOrg \/ NextWeb

SpecBatch == InitBatch /\ [][NextBatch]_vars


\* s and t hold the same elements the same number of times
SameBag(s, t) ==
    \A x \in Range(s) \cup Range(t) : Occurrences(s, x) = Occurrences(t, x)

RECURSIVE OrgBatchesFrom(_)
\* the batches of the repositories from the i-th on, in submission order
OrgBatchesFrom(i) ==
    IF i > Len(repos) THEN <<>>
    ELSE JobBatch(repos[i], repos[i] \in failing) \o OrgBatchesFrom(i + 1)

RECURSIVE WebBatchesFrom(_)
\* the batches of the targets from the i-th on, in the order of the argument
WebBatchesFrom(i) ==
    IF i > Len(wtTargets) THEN <<>>
    ELSE TargetBatch(wtTargets[i], wtTargets[i] \in wtFailing) \o WebBatchesFrom(i + 1)

\* C11: for either batch (the repositories of an organization, the targets
\* of a web scan) the aggregate returned by a pool of one worker is the
\* batches in submission order, and the aggregate returned by a pool of
\* more workers holds the same results the same number of times: only the
\* order differs.
C11_PoolSizeIndependent ==
    /\ (orgPc = "returned" /\ ~orgErr /\ workers >= 1) =>
           /\ SameBag(allResults, OrgBatchesFrom(1))
           /\ workers = 1 => allResults = OrgBatchesFrom(1)
    /\ (wtPc = "returned" /\ wtWorkers >= 1) =>
           /\ SameBag(wtAll, WebBatchesFrom(1))
           /\ wtWorkers = 1 => wtAll = WebBatchesFrom(1)

\* C11 witness: a web scan of three targets by two workers has returned
\* the results of the sequential run in another order.
C11_Witness ==
    /\ wtPc = "returned" /\ wtWorkers = 2 /\ Len(wtTargets) = 3 /\ wtFailing = {}
    /\ wtAll # WebBatchesFrom(1)
    /\ Len(wtAll) = Len(WebBatchesFrom(1))

-----------------------------------------------------------------------------
(* WorkerPool on its own: NewWorkerPool, Start, Submit, Stop, worker *)

MaxJobs == 4
MaxPoolWorkers == 2

PoolWorkers == 1..pWorkers

\* variant: a receive on a closed channel reports !ok at once, whatever is
\* still buffered
ReceiveAbortsOnClose(queue, isClosed) ==
    IF isClosed THEN "closed"
    ELSE IF queue # <<>> THEN "job" ELSE "block"

\* `case job, ok := <-wp.jobQueue`: a buffered job if there is one (also
\* after close), !ok once the channel is closed and drained, else it blocks
Receive(queue, isClosed) ==
    IF queue # <<>> THEN "job"
    ELSE IF isClosed THEN "closed" ELSE "block"

\* everything but the pool's own state is left alone
PoolFrame ==
    UNCHANGED <<resolverVars, safeVars, orgVars, webVars, srVars, ghVars, blobVars,
                parseVars, factoryVars, cmdVars, ctxVars, listVars, targetVars,
                ecoVars, wkVars, detailVars, sfVars>>

\* NewWorkerPool(workers); the caller is about to call Start
InitPool ==
    /\ pWorkers \in 0..MaxPoolWorkers
    /\ pJobs \in 0..MaxJobs
    /\ pPc = "start"
    /\ pSubmitted = 0
    /\ pQueue = <<>> /\ pClosed = FALSE
    /\ pState = [w \in PoolWorkers |-> "idle"]
    /\ pJob = [w \in PoolWorkers |-> 0]
    /\ pExecuted = [j \in 1..pJobs |-> 0]
    /\ pAtClose = {}
    /\ ScanIdle /\ SafeIdle /\ OrgIdle /\ WebIdle /\ ResultIdle /\ RepoIdle
    /\ BlobIdle /\ ParseIdle
    /\ FactoryIdle
    /\ CommandIdle
    /\ ContextIdle
    /\ ListIdle
    /\ TargetIdle
    /\ EcosystemIdle
    /\ WorkersIdle
    /\ DetailsIdle
    /\ TasksIdle

\* Start: wg.Add(1) and `go wp.worker()` for each worker
PoolStart ==
    /\ pPc = "start"
    /\ pPc' = IF pJobs > 0 THEN "submit" ELSE "stop"
    /\ UNCHANGED <<pWorkers, pJobs, pSubmitted, pQueue, pClosed, pState, pJob,
                   pExecuted, pAtClose>>
    /\ PoolFrame

\* Submit(job): the send on jobQueue, possible while the queue has room;
\* the other case of the select needs the cancelled context
PoolSubmit ==
    /\ pPc = "submit"
    /\ Len(pQueue) < QueueCap(pWorkers)
    /\ pQueue' = Append(pQueue, pSubmitted + 1)
    /\ pSubmitted' = pSubmitted + 1
    /\ pPc' = IF pSubmitted + 1 < pJobs THEN "submit" ELSE "stop"
    /\ UNCHANGED <<pWorkers, pJobs, pClosed, pState, pJob, pExecuted, pAtClose>>
    /\ PoolFrame

\* Stop: close(wp.jobQueue)
PoolStopClose ==
    /\ pPc = "stop"
    /\ pClosed' = TRUE
    /\ pAtClose' = Range(pQueue)
    /\ pPc' = "wait"
    /\ UNCHANGED <<pWorkers, pJobs, pSubmitted, pQueue, pState, pJob, pExecuted>>
    /\ PoolFrame

\* Stop: wp.wg.Wait() returns once every worker has called wg.Done()
PoolStopWait ==
    /\ pPc = "wait"
    /\ WaitReturns(pState)
    /\ pPc' = "stopped"
    /\ UNCHANGED <<pWorkers, pJobs, pSubmitted, pQueue, pClosed, pState, pJob,
                   pExecuted, pAtClose>>
    /\ PoolFrame

\* variant: a worker receives from the queue while its job is still running
AtSelectOrRunning(ps, w) == ps[w] \in {"idle", "running"}

\* the worker goroutine is at the select of its loop, not inside job()
AtSelect(ps, w) == ps[w] = "idle"

\* worker: the receive yields a job; job() is called
PoolDequeue(w) ==
    /\ w \in PoolWorkers
    /\ pPc # "start"
    /\ AtSelect(pState, w)
    /\ Receive(pQueue, pClosed) = "job"
    /\ pJob' = [pJob EXCEPT ![w] = Head(pQueue)]
    /\ pQueue' = Tail(pQueue)
    /\ pState' = [pState EXCEPT ![w] = "running"]
    /\ UNCHANGED <<pWorkers, pJobs, pPc, pSubmitted, pClosed, pExecuted, pAtClose>>
    /\ PoolFrame

\* worker: job() returns
PoolJobDone(w) ==
    /\ w \in PoolWorkers
    /\ pState[w] = "running"
    /\ pExecuted' = [pExecuted EXCEPT ![pJob[w]] = @ + 1]
    /\ pJob' = [pJob EXCEPT ![w] = 0]
    /\ pState' = [pState EXCEPT ![w] = "idle"]
    /\ UNCHANGED <<pWorkers, pJobs, pPc, pSubmitted, pQueue, pClosed, pAtClose>>
    /\ PoolFrame

\* worker: the receive yields !ok: return, and the deferred wg.Done()
PoolWorkerExit(w) ==
    /\ w \in PoolWorkers
    /\ pPc # "start"
    /\ pState[w] = "idle"
    /\ Receive(pQueue, pClosed) = "closed"
    /\ pState' = [pState EXCEPT ![w] = "exited"]
    /\ UNCHANGED <<pWorkers, pJobs, pPc, pSubmitted, pQueue, pClosed, pJob, pExecuted,
                   pAtClose>>
    /\ PoolFrame

NextPool ==
    \/ PoolStart
    \/ PoolSubmit
    \/ PoolStopClose
    \/ PoolStopWait
    \/ \E w \in 1..MaxPoolWorkers :
           \/ PoolDequeue(w)
           \/ PoolJobDone(w)
           \/ PoolWorkerExit(w)

SpecPool == InitPool /\ [][NextPool]_vars

\* the jobs that have left the queue: running now or run to completion
PoolTaken ==
    {pJob[w] : w \in {v \in PoolWorkers : pState[v] = "running"}}
        \cup {j \in 1..pJobs : pExecuted[j] > 0}

\* C12: Submit returns only by putting its job on the queue, which it can
\* do only while the queue holds fewer than 2*N jobs; every job whose
\* Submit has returned is in the queue, running or done (none is dropped).
C12_SubmitBlocksWhenFull ==
    /\ [][pSubmitted' # pSubmitted =>
            /\ Len(pQueue) < 2 * pWorkers
            /\ pSubmitted' = pSubmitted + 1
            /\ pQueue' = Append(pQueue, pSubmitted')]_vars
    /\ [](/\ Len(pQueue) <= 2 * pWorkers
          /\ Range(pQueue) \cup PoolTaken = 1..pSubmitted
          /\ Range(pQueue) \cap PoolTaken = {}
          /\ Len(pQueue) = Cardinality(Range(pQueue)))

\* C12 witness: the queue holds 2*N jobs, no worker has dequeued any, and
\* the caller is inside Submit with the next job.
C12_Witness ==
    /\ pPc = "submit" /\ pWorkers >= 1
    /\ Len(pQueue) = 2 * pWorkers
    /\ PoolTaken = {}
    /\ pSubmitted = 2 * pWorkers /\ pSubmitted < pJobs

\* C13: when Stop has returned every job submitted before it has run to
\* completion exactly once, the jobs that were waiting in the queue at the
\* close included, the queue is empty and every worker has exited.
C13_StopDrains ==
    pPc = "stopped" =>
        /\ pSubmitted = pJobs
        /\ \A j \in 1..pSubmitted : pExecuted[j] = 1
        /\ pQueue = <<>>
        /\ \A w \in PoolWorkers : pState[w] = "exited" /\ pJob[w] = 0

\* C13 witness: Stop has returned from a pool of two workers although jobs
\* were still queued when it closed the queue.
C13_Witness ==
    /\ pPc = "stopped" /\ pWorkers = 2 /\ pJobs = 4
    /\ Cardinality(pAtClose) >= 2

-----------------------------------------------------------------------------
(* A ScanResult under any sequence of calls of its methods *)

MaxCalls == 4

\* the identifiers passed to AddVulnerable and AddSafe
ResultNames == {N_cf, N_l}

\* everything but the ScanResult and its handler is left alone
ResultFrame ==
    UNCHANGED <<resolverVars, safeVars, orgVars, webVars, poolVars, ghVars, blobVars,
                parseVars, factoryVars, cmdVars, ctxVars, listVars, targetVars,
                ecoVars, wkVars, detailVars, sfVars>>

\* NewScanResult(...): Created
InitResult ==
    /\ srObj = NewScanResult
    /\ srMeta = {} /\ srFinalizeCalls = 0 /\ srDirty = FALSE
    /\ srSnapshot = <<>> /\ srCalls = 0
    /\ hType = "any" /\ hPackages = <<>> /\ hStep = 0 /\ hIdx = 0
    /\ ScanIdle /\ SafeIdle /\ OrgIdle /\ WebIdle /\ PoolIdle /\ RepoIdle
    /\ BlobIdle /\ ParseIdle
    /\ FactoryIdle
    /\ CommandIdle
    /\ ContextIdle
    /\ ListIdle
    /\ TargetIdle
    /\ EcosystemIdle
    /\ WorkersIdle
    /\ DetailsIdle
    /\ TasksIdle

\* sr.AddVulnerable(pkg), in whatever state sr is
CallAddVulnerable ==
    /\ hType = "any" /\ srCalls < MaxCalls
    /\ \E pkg \in ResultNames : srObj' = AddVulnerable(srObj, pkg)
    /\ srDirty' = TRUE
    /\ srCalls' = srCalls + 1
    /\ UNCHANGED <<srMeta, srFinalizeCalls, srSnapshot, hType, hPackages, hStep, hIdx>>
    /\ ResultFrame

\* sr.AddSafe(pkg), in whatever state sr is
CallAddSafe ==
    /\ hType = "any" /\ srCalls < MaxCalls
    /\ \E pkg \in ResultNames : srObj' = AddSafe(srObj, pkg)
    /\ srDirty' = TRUE
    /\ srCalls' = srCalls + 1
    /\ UNCHANGED <<srMeta, srFinalizeCalls, srSnapshot, hType, hPackages, hStep, hIdx>>
    /\ ResultFrame

\* sr.Finalize()
CallFinalize ==
    /\ hType = "any" /\ srCalls < MaxCalls
    /\ srObj' = Finalize(srObj)
    /\ srFinalizeCalls' = srFinalizeCalls + 1
    /\ srSnapshot' = IF srFinalizeCalls = 0 THEN Finalize(srObj) ELSE srSnapshot
    /\ srDirty' = FALSE
    /\ srCalls' = srCalls + 1
    /\ UNCHANGED <<srMeta, hType, hPackages, hStep, hIdx>>
    /\ ResultFrame

NextResult ==
    \/ CallAddVulnerable
    \/ CallAddSafe
    \/ CallFinalize

SpecResult == InitResult /\ [][NextResult]_vars

\* C15 (as claimed): once Finalize has been called, the vulnerable list, the
\* safe list and the total are what that Finalize left, whatever is called
\* afterwards, so total = |vulnerable| + |safe| from then on.
C15_FinalizedIsImmutable ==
    srFinalizeCalls > 0 =>
        /\ srObj.Vulnerable = srSnapshot.Vulnerable
        /\ srObj.Safe = srSnapshot.Safe
        /\ srObj.Total = srSnapshot.Total
        /\ srObj.Total = Len(srObj.Vulnerable) + Len(srObj.Safe)


-----------------------------------------------------------------------------
(* The handlers that fill a ScanResult: runScanCommand and the two *)
(* scanDependencyFile, from the range loop over vulnerablePackages on *)

\* the keys of Metadata a handler writes
MetadataKeys == {"file_path", "file_sha", "file_url", "file_size", "status_code"}

\* variant: the result is finalized before its metadata is written
HandlerStepsFinalizeFirst(type) ==
    CASE type = "file" -> <<"finalize", "add", "return">>
      [] type = "github" ->
             <<"add", "finalize", "file_path", "file_sha", "file_size", "return">>
      [] type = "web" ->
             <<"add", "finalize", "file_path", "file_url", "file_size", "status_code",
               "return">>

\* the statements of a handler, in the order of its code
HandlerSteps(type) ==
    CASE type = "file" -> <<"add", "finalize", "return">>
      [] type = "github" ->
             <<"add", "file_path", "file_sha", "file_size", "finalize", "return">>
      [] type = "web" ->
             <<"add", "file_path", "file_url", "file_size", "status_code", "finalize",
               "return">>

\* the statement the handler is at ("none" once it has returned)
HandlerAt ==
    IF hType \in ScanTypes /\ hStep \in 1..Len(HandlerSteps(hType))
    THEN HandlerSteps(hType)[hStep] ELSE "none"

HandlerReturned == hType \in ScanTypes /\ hStep > Len(HandlerSteps(hType))

\* result := types.NewScanResult(...) and vulnerablePackages computed
InitHandler ==
    /\ srObj = NewScanResult
    /\ srMeta = {} /\ srFinalizeCalls = 0 /\ srDirty = FALSE
    /\ srSnapshot = <<>> /\ srCalls = 0
    /\ hType \in ScanTypes
    /\ hPackages \in SeqsUpTo(ResultNames, MaxPkgs)
    /\ hStep = 1 /\ hIdx = 1
    /\ ScanIdle /\ SafeIdle /\ OrgIdle /\ WebIdle /\ PoolIdle /\ RepoIdle
    /\ BlobIdle /\ ParseIdle
    /\ FactoryIdle
    /\ CommandIdle
    /\ ContextIdle
    /\ ListIdle
    /\ TargetIdle
    /\ EcosystemIdle
    /\ WorkersIdle
    /\ DetailsIdle
    /\ TasksIdle

\* for _, pkg := range vulnerablePackages { result.AddVulnerable(pkg) }
HandlerAdd ==
    /\ HandlerAt = "add" /\ hIdx <= Len(hPackages)
    /\ srObj' = AddVulnerable(srObj, hPackages[hIdx])
    /\ srDirty' = TRUE
    /\ srCalls' = srCalls + 1
    /\ hIdx' = hIdx + 1
    /\ UNCHANGED <<srMeta, srFinalizeCalls, srSnapshot, hType, hPackages, hStep>>
    /\ ResultFrame

\* the range loop ends
HandlerAddDone ==
    /\ HandlerAt = "add" /\ hIdx > Len(hPackages)
    /\ hStep' = hStep + 1
    /\ UNCHANGED <<srObj, srMeta, srFinalizeCalls, srDirty, srSnapshot, srCalls, hType,
                   hPackages, hIdx>>
    /\ ResultFrame

\* result.Metadata[key] = ...
HandlerMetadata ==
    /\ HandlerAt \in MetadataKeys
    /\ srMeta' = srMeta \cup {HandlerAt}
    /\ srDirty' = TRUE
    /\ hStep' = hStep + 1
    /\ UNCHANGED <<srObj, srFinalizeCalls, srSnapshot, srCalls, hType, hPackages, hIdx>>
    /\ ResultFrame

\* result.Finalize()
HandlerFinalize ==
    /\ HandlerAt = "finalize"
    /\ srObj' = Finalize(srObj)
    /\ srFinalizeCalls' = srFinalizeCalls + 1
    /\ srSnapshot' = IF srFinalizeCalls = 0 THEN Finalize(srObj) ELSE srSnapshot
    /\ srDirty' = FALSE
    /\ srCalls' = srCalls + 1
    /\ hStep' = hStep + 1
    /\ UNCHANGED <<srMeta, hType, hPackages, hIdx>>
    /\ ResultFrame

\* return result, nil (runScanCommand: printResult(result))
HandlerReturn ==
    /\ HandlerAt = "return"
    /\ hStep' = hStep + 1
    /\ UNCHANGED <<srObj, srMeta, srFinalizeCalls, srDirty, srSnapshot, srCalls, hType,
                   hPackages, hIdx>>
    /\ ResultFrame

NextHandler ==
    \/ HandlerAdd
    \/ HandlerAddDone
    \/ HandlerMetadata
    \/ HandlerFinalize
    \/ HandlerReturn

SpecHandler == InitHandler /\ [][NextHandler]_vars

\* C16: the ScanResult a handler returns (local file, GitHub, web) has
\* been finalized exactly once, nothing was written to it after that, it
\* holds the handler's vulnerable packages and its total is
\* |vulnerable| + |safe|.
C16_ReturnedResultFinalizedOnce ==
    HandlerReturned =>
        /\ srFinalizeCalls = 1
        /\ ~srDirty
        /\ srObj = srSnapshot
        /\ srObj.Vulnerable = hPackages
        /\ srObj.Total = Len(srObj.Vulnerable) + Len(srObj.Safe)

\* C16 witness: the web handler has returned a result of two vulnerable
\* packages with its four metadata entries.
C16_Witness ==
    /\ HandlerReturned /\ hType = "web"
    /\ Len(hPackages) = 2 /\ srObj.Total = 2
    /\ Cardinality(srMeta) = 4


-----------------------------------------------------------------------------
(* ScanRepository: the default branch and, in deep mode, the other branches *)

MaxBranches == 2
MaxSha == 2

\* branches on one page of Repositories.ListBranches (100 in the code,
\* scaled down with the number of branches)
PerPage == 1

\* the manifests a tree may hold, in the order of tree.Entries
ManifestPaths == << "requirements.txt", "api/requirements.txt" >>

\* the repository argument, "owner/repo"
RepoFullName == "o/r"

\* the ScanResult scanDependencyFile builds for a tree entry: Target is
\* "owner/repo:path", Metadata holds file_path and file_sha (file_size is
\* a function of the blob)
FileResult(path, sha) ==
    [Target |-> <<RepoFullName, ":", path>>, Type |-> "github",
     file_path |-> path, file_sha |-> sha]

\* scanBranch: one result for each dependency file of the branch's tree
BranchResults(tree) ==
    LET present == SelectSeq(ManifestPaths, LAMBDA p : tree[p] # 0)
    IN  [k \in 1..Len(present) |-> FileResult(present[k], tree[present[k]])]

\* everything but the state of ScanRepository is left alone
RepoFrame ==
    UNCHANGED <<resolverVars, safeVars, orgVars, webVars, poolVars, srVars, blobVars,
                parseVars, factoryVars, cmdVars, ctxVars, listVars, targetVars,
                ecoVars, wkVars, detailVars, sfVars>>

\* ScanRepository(repo, languages, safeSpaces, deep) is called
InitRepo ==
    /\ ghDeep \in BOOLEAN
    /\ ghBranches \in {[i \in 1..n |-> i] : n \in 1..MaxBranches}
    /\ ghTree \in [Range(ghBranches) -> [Range(ManifestPaths) -> 0..MaxSha]]
    /\ ghTreeFails \in SUBSET Range(ghBranches)
    /\ ghPc = "default" /\ ghIdx = 1
    /\ ghResults = <<>> /\ ghOrigin = <<>> /\ ghErr = FALSE
    /\ ghFetched = [b \in Range(ghBranches) |-> 0]
    /\ ghListed = <<>> /\ ghPage = 1
    /\ ScanIdle /\ SafeIdle /\ OrgIdle /\ WebIdle /\ PoolIdle /\ ResultIdle
    /\ BlobIdle /\ ParseIdle
    /\ FactoryIdle
    /\ CommandIdle
    /\ ContextIdle
    /\ ListIdle
    /\ TargetIdle
    /\ EcosystemIdle
    /\ WorkersIdle
    /\ DetailsIdle
    /\ TasksIdle

\* the default branch is the first of ghBranches
DefaultBranch == ghBranches[1]

\* Repositories.Get fails: ScanRepository returns the error
RepoScanFails ==
    /\ ghPc = "default"
    /\ ghErr' = TRUE
    /\ ghPc' = "returned"
    /\ UNCHANGED <<ghDeep, ghBranches, ghTree, ghTreeFails, ghIdx, ghResults, ghOrigin,
                   ghFetched, ghListed, ghPage>>
    /\ RepoFrame

\* Git.GetTree(ctx, owner, repo, branch, true) is called once by scanBranch
GetTree(fetched, branch) == [fetched EXCEPT ![branch] = @ + 1]

\* scanBranch of the default branch fails in GetTree: ScanRepository
\* returns the error
DefaultBranchFails ==
    /\ ghPc = "default"
    /\ DefaultBranch \in ghTreeFails
    /\ ghFetched' = GetTree(ghFetched, DefaultBranch)
    /\ ghErr' = TRUE
    /\ ghPc' = "returned"
    /\ UNCHANGED <<ghDeep, ghBranches, ghTree, ghTreeFails, ghIdx, ghResults, ghOrigin,
                   ghListed, ghPage>>
    /\ RepoFrame

\* results, err := gc.scanBranch(owner, repoName, defaultBranch, ...)
ScanDefaultBranch ==
    /\ ghPc = "default"
    /\ DefaultBranch \notin ghTreeFails
    /\ ghFetched' = GetTree(ghFetched, DefaultBranch)
    /\ LET found == BranchResults(ghTree[DefaultBranch]) IN
           /\ ghResults' = found
           /\ ghOrigin' = [k \in 1..Len(found) |-> DefaultBranch]
    /\ ghPc' = IF ghDeep THEN "list" ELSE "returned"
    /\ UNCHANGED <<ghDeep, ghBranches, ghTree, ghTreeFails, ghIdx, ghErr, ghListed,
                   ghPage>>
    /\ RepoFrame

\* deep: a ListBranches call of getBranches fails, a warning is logged and
\* the results so far are returned
ListBranchesFails ==
    /\ ghPc = "list"
    /\ ghListed' = <<>>
    /\ ghPc' = "returned"
    /\ UNCHANGED <<ghDeep, ghBranches, ghTree, ghTreeFails, ghIdx, ghResults, ghOrigin,
                   ghErr, ghFetched, ghPage>>
    /\ RepoFrame

\* the branches on page `page` of the listing
BranchPage(page) ==
    SubSeq(ghBranches, (page - 1) * PerPage + 1,
           IF page * PerPage < Len(ghBranches) THEN page * PerPage ELSE Len(ghBranches))

\* variant: every page is taken for the last one
NextPageNone(page) == 0

\* resp.NextPage of the answer for page `page`: 0 on the last page
NextPage(page) == IF page * PerPage < Len(ghBranches) THEN page + 1 ELSE 0

\* deep: one round of the loop of getBranches: the page is appended, and
\* the loop ends when there is no next page
ListBranches ==
    /\ ghPc = "list"
    /\ ghListed' = ghListed \o BranchPage(ghPage)
    /\ IF NextPage(ghPage) = 0
       THEN ghPc' = "branches" /\ ghPage' = ghPage
       ELSE ghPc' = "list" /\ ghPage' = NextPage(ghPage)
    /\ UNCHANGED <<ghDeep, ghBranches, ghTree, ghTreeFails, ghIdx, ghResults, ghOrigin,
                   ghErr, ghFetched>>
    /\ RepoFrame

\* deep: `if branch == defaultBranch { continue }`
SkipDefaultBranch ==
    /\ ghPc = "branches" /\ ghIdx <= Len(ghListed)
    /\ ghListed[ghIdx] = DefaultBranch
    /\ ghIdx' = ghIdx + 1
    /\ UNCHANGED <<ghDeep, ghBranches, ghTree, ghTreeFails, ghPc, ghResults, ghOrigin,
                   ghErr, ghFetched, ghListed, ghPage>>
    /\ RepoFrame

\* deep: scanBranch of another branch fails in GetTree: a warning, continue
OtherBranchFails ==
    /\ ghPc = "branches" /\ ghIdx <= Len(ghListed)
    /\ ghListed[ghIdx] # DefaultBranch
    /\ ghListed[ghIdx] \in ghTreeFails
    /\ ghFetched' = GetTree(ghFetched, ghListed[ghIdx])
    /\ ghIdx' = ghIdx + 1
    /\ UNCHANGED <<ghDeep, ghBranches, ghTree, ghTreeFails, ghPc, ghResults, ghOrigin,
                   ghErr, ghListed, ghPage>>
    /\ RepoFrame

\* deep: results = append(results, branchResults...)
ScanOtherBranch ==
    /\ ghPc = "branches" /\ ghIdx <= Len(ghListed)
    /\ ghListed[ghIdx] # DefaultBranch
    /\ ghListed[ghIdx] \notin ghTreeFails
    /\ ghFetched' = GetTree(ghFetched, ghListed[ghIdx])
    /\ LET found == BranchResults(ghTree[ghListed[ghIdx]]) IN
           /\ ghResults' = ghResults \o found
           /\ ghOrigin' = ghOrigin \o [k \in 1..Len(found) |-> ghListed[ghIdx]]
    /\ ghIdx' = ghIdx + 1
    /\ UNCHANGED <<ghDeep, ghBranches, ghTree, ghTreeFails, ghPc, ghErr, ghListed,
                   ghPage>>
    /\ RepoFrame

\* the range loop over the branches ends: return results, nil
ReturnRepo ==
    /\ ghPc = "branches" /\ ghIdx > Len(ghListed)
    /\ ghPc' = "returned"
    /\ UNCHANGED <<ghDeep, ghBranches, ghTree, ghTreeFails, ghIdx, ghResults, ghOrigin,
                   ghErr, ghFetched, ghListed, ghPage>>
    /\ RepoFrame

NextRepo ==
    \/ RepoScanFails
    \/ DefaultBranchFails
    \/ ScanDefaultBranch
    \/ ListBranchesFails
    \/ ListBranches
    \/ SkipDefaultBranch
    \/ OtherBranchFails
    \/ ScanOtherBranch
    \/ ReturnRepo

SpecRepo == InitRepo /\ [][NextRepo]_vars

\* C17 (as claimed): every result of a GitHub scan carries the repository,
\* the manifest path and the branch it was read from, so two results for
\* the same path read from two different branches differ.
C17_ResultsTaggedWithBranch ==
    \A i, j \in 1..Len(ghResults) :
        (ghOrigin[i] # ghOrigin[j] /\ ghResults[i].file_path = ghResults[j].file_path)
            => ghResults[i] # ghResults[j]


-----------------------------------------------------------------------------
(* getFileContent: the blob of a dependency file. Bytes and characters *)
(* are their codes, a text is the sequence of the codes of its characters *)

MaxBlobLen == 3

\* the bytes files are made of here: "f", "=", "\n"
FileBytes == {102, 61, 10}

\* the character of a base64 digit 0..63: A-Z, a-z, 0-9, +, /
Base64Char(d) ==
    IF d < 26 THEN 65 + d
    ELSE IF d < 52 THEN 97 + (d - 26)
    ELSE IF d < 62 THEN 48 + (d - 52)
    ELSE IF d = 62 THEN 43 ELSE 47

\* the padding character "="
Base64Pad == 61

RECURSIVE Base64Encode(_)
\* base64 (standard alphabet, padded) of a byte sequence
Base64Encode(bytes) ==
    IF bytes = <<>> THEN <<>>
    ELSE IF Len(bytes) = 1 THEN
        << Base64Char(bytes[1] \div 4), Base64Char((bytes[1] % 4) * 16),
           Base64Pad, Base64Pad >>
    ELSE IF Len(bytes) = 2 THEN
        << Base64Char(bytes[1] \div 4),
           Base64Char((bytes[1] % 4) * 16 + (bytes[2] \div 16)),
           Base64Char((bytes[2] % 16) * 4), Base64Pad >>
    ELSE
        << Base64Char(bytes[1] \div 4),
           Base64Char((bytes[1] % 4) * 16 + (bytes[2] \div 16)),
           Base64Char((bytes[2] % 16) * 4 + (bytes[3] \div 64)),
           Base64Char(bytes[3] % 64) >>
          \o Base64Encode(SubSeq(bytes, 4, Len(bytes)))

\* the digit of a base64 character
Base64Digit(c) == CHOOSE d \in 0..63 : Base64Char(d) = c

RECURSIVE Base64Decode(_)
\* the bytes a padded base64 text stands for
Base64Decode(text) ==
    IF Len(text) < 4 THEN <<>>
    ELSE
        LET a == Base64Digit(text[1])
            b == Base64Digit(text[2])
            rest == Base64Decode(SubSeq(text, 5, Len(text)))
        IN  IF text[3] = Base64Pad THEN
                << a * 4 + (b \div 16) >>
            ELSE IF text[4] = Base64Pad THEN
                LET c == Base64Digit(text[3])
                IN  << a * 4 + (b \div 16), (b % 16) * 16 + (c \div 4) >>
            ELSE
                LET c == Base64Digit(text[3])
                    d == Base64Digit(text[4])
                IN  << a * 4 + (b \div 16), (b % 16) * 16 + (c \div 4),
                       (c % 4) * 64 + d >> \o rest

\* everything but the blob's state is left alone
BlobFrame ==
    UNCHANGED <<resolverVars, safeVars, orgVars, webVars, poolVars, srVars, ghVars,
                parseVars, factoryVars, cmdVars, ctxVars, listVars, targetVars,
                ecoVars, wkVars, detailVars, sfVars>>

\* scanDependencyFile calls getFileContent for a tree entry
InitBlob ==
    /\ blFile \in SeqsUpTo(FileBytes, MaxBlobLen)
    /\ blContent = <<>> /\ blParsed = <<>>
    /\ blPc = "fetch"
    /\ ScanIdle /\ SafeIdle /\ OrgIdle /\ WebIdle /\ PoolIdle /\ ResultIdle /\ RepoIdle
    /\ ParseIdle
    /\ FactoryIdle
    /\ CommandIdle
    /\ ContextIdle
    /\ ListIdle
    /\ TargetIdle
    /\ EcosystemIdle
    /\ WorkersIdle
    /\ DetailsIdle
    /\ TasksIdle

\* gc.client.Git.GetBlob answers: the content field is the file in base64
GetBlob ==
    /\ blPc = "fetch"
    /\ blContent' = Base64Encode(blFile)
    /\ blPc' = "fetched"
    /\ UNCHANGED <<blFile, blParsed>>
    /\ BlobFrame

\* content := blob.GetContent(); return []byte(content), nil
ReturnContent ==
    /\ blPc = "fetched"
    /\ blParsed' = blContent
    /\ blPc' = "returned"
    /\ UNCHANGED <<blFile, blContent>>
    /\ BlobFrame

NextBlob == GetBlob \/ ReturnContent

SpecBlob == InitBlob /\ [][NextBlob]_vars

\* C18 (as claimed): the bytes handed to the parser are the base64-decoding
\* of the content the blob call returned, that is the bytes of the file.
C18_BlobIsDecoded ==
    (blPc = "returned" /\ blFile # <<>>) =>
        /\ blParsed = Base64Decode(blContent)
        /\ blParsed = blFile


-----------------------------------------------------------------------------
(* ReadPackagesFromFile: the manifest parsers *)

\* everything but the state of the parser call is left alone
ParseFrame ==
    UNCHANGED <<resolverVars, safeVars, orgVars, webVars, poolVars, srVars, ghVars,
                blobVars, factoryVars, cmdVars, ctxVars, listVars, targetVars, ecoVars,
                wkVars, detailVars, sfVars>>

\* the byte threshold below which a POM is skipped
MinPomBytes == 10

M_a == [Group |-> <<"c">>, Artifact |-> <<"a">>, Version |-> <<"1">>]
M_b == [Group |-> <<"c">>, Artifact |-> <<"b">>, Version |-> <<"1">>]
M_p == [Group |-> <<"c">>, Artifact |-> <<"p">>, Version |-> <<"1">>]
M_q == [Group |-> <<"c">>, Artifact |-> <<"q">>, Version |-> <<"1">>]

\* the MavenProject a well-formed pom.xml decodes to: its dependencies, its
\* build plugins and the build plugins of its profiles
MavenProjects ==
    [Dependencies : {<<>>, <<M_a>>, <<M_a, M_b>>},
     Plugins : {<<>>, <<M_p>>},
     ProfilePlugins : {<<>>, <<M_q>>}]

EmptyProject == [Dependencies |-> <<>>, Plugins |-> <<>>, ProfilePlugins |-> <<>>]

\* pom.xml files: a size in bytes, the project its text spells out, and
\* whether the text is whole, cut off, or not XML; a file under the
\* threshold has no room for a dependency
PomFiles ==
    [size : {0, MinPomBytes - 1}, damage : {"none", "truncated", "invalid"},
     project : {EmptyProject}]
      \cup [size : {MinPomBytes, 20 * MinPomBytes},
            damage : {"none", "truncated", "invalid"}, project : MavenProjects]

\* all but the last element
Front(s) == IF s = <<>> THEN <<>> ELSE SubSeq(s, 1, Len(s) - 1)

\* xml.Unmarshal(rawfile, &project): an error for text that is cut off or
\* not XML, with project holding what was decoded before the error
XmlUnmarshal(file) ==
    IF file.damage = "none" THEN [err |-> FALSE, project |-> file.project]
    ELSE [err |-> TRUE,
          project |-> [Dependencies |-> file.project.Dependencies,
                       Plugins |-> Front(file.project.Plugins),
                       ProfilePlugins |-> <<>>]]

\* MVNLookup.ReadPackagesFromFile after ioutil.ReadFile
MvnRead(file) ==
    IF file.size < MinPomBytes THEN [err |-> FALSE, warned |-> TRUE, packages |-> <<>>]
    ELSE LET r == XmlUnmarshal(file) IN
         IF r.err THEN [err |-> FALSE, warned |-> TRUE, packages |-> <<>>]
         ELSE [err |-> FALSE, warned |-> FALSE,
               packages |-> r.project.Dependencies \o r.project.Plugins
                                \o r.project.ProfilePlugins]

Cp_a == [Name |-> <<"a">>, Version |-> <<"1">>]
Cp_b == [Name |-> <<"b">>, Version |-> <<"2">>]

\* what a composer.json holds under "require" or "require-dev": nothing,
\* something that is not an object of strings, or an object of strings
JsonFields ==
    [kind : {"absent", "wrongtype"}, entries : {{}}]
      \cup [kind : {"map"}, entries : SUBSET {Cp_a, Cp_b}]

\* composer.json files: valid JSON or not, an object at the top or not,
\* and the two sections
ComposerFiles ==
    [syntax : {"valid", "invalid"}, top : {"object", "array"},
     require : JsonFields, requireDev : JsonFields]

\* json.Unmarshal(rawfile, &data): invalid JSON is rejected before anything
\* is stored; a value of the wrong type is skipped and reported, the rest
\* is still stored
JsonUnmarshal(file) ==
    IF file.syntax = "invalid" \/ file.top # "object"
    THEN [err |-> TRUE, Require |-> {}, RequireDev |-> {}]
    ELSE [err |-> file.require.kind = "wrongtype" \/ file.requireDev.kind = "wrongtype",
          Require |-> file.require.entries,
          RequireDev |-> file.requireDev.entries]

\* the orders in which a range loop may visit the entries of a map
Orders(set) ==
    {s \in [1..Cardinality(set) -> set] : \A e \in set : \E k \in DOMAIN s : s[k] = e}

\* the characters PythonLookup.pipSplit splits on
PipDelims == {"=", "<", ">", "!", " ", "~", "#", "["}

pipSplit(r) == r \in PipDelims

\* the line-continuation marker
Backslash == "\\"

RECURSIVE TrimLeft(_)
TrimLeft(s) == IF s # <<>> /\ s[1] = " " THEN TrimLeft(Tail(s)) ELSE s

RECURSIVE TrimRight(_)
TrimRight(s) == IF s # <<>> /\ s[Len(s)] = " " THEN TrimRight(Front(s)) ELSE s

\* strings.TrimSpace
TrimSpace(s) == TrimRight(TrimLeft(s))

\* strings.HasSuffix
HasSuffix(s, p) == Len(s) >= Len(p) /\ SubSeq(s, Len(s) - Len(p) + 1, Len(s)) = p

\* strings.FieldsFunc(s, p.pipSplit): the maximal runs of characters that
\* are not delimiters, in order
RECURSIVE FieldsFunc(_)
FieldsFunc(s) ==
    IF s = <<>> THEN <<>>
    ELSE IF pipSplit(s[1]) THEN FieldsFunc(Tail(s))
    ELSE LET n == CHOOSE k \in 1..Len(s) :
                      /\ \A j \in 1..k : ~pipSplit(s[j])
                      /\ k = Len(s) \/ pipSplit(s[k + 1])
         IN  <<SubSeq(s, 1, n)>> \o FieldsFunc(SubSeq(s, n + 1, Len(s)))

\* lines of a requirements file, as sequences of characters
PipLines ==
    { <<>>,
      <<"f">>,
      <<"f", "=", "=", "1">>,
      <<"f", "=", "=", "1", Backslash>>,
      <<".", "0">>,
      <<"=", "=", "1">>,
      <<"[", "f", "]">>,
      <<"#", "c">>,
      <<" ", "g", " ">> }

\* the most lines in a requirements file
MaxLines == 3

\* strings.Split(string(rawfile), "\n") of the files read: one line or more
PipFiles == {c \in SeqsUpTo(PipLines, MaxLines) : c # <<>>}

\* the loop over the lines from line i on, with the text joined so far:
\* the joined lines that reach strings.FieldsFunc, in order
RECURSIVE PipJoinedFrom(_, _, _)
PipJoinedFrom(lines, i, line) ==
    IF i > Len(lines) THEN <<>>
    ELSE LET l == TrimSpace(lines[i]) IN
         IF HasPrefix(l, <<"#">>) THEN PipJoinedFrom(lines, i + 1, line)
         ELSE IF Len(l) = 0 THEN PipJoinedFrom(lines, i + 1, line)
         ELSE IF HasSuffix(l, <<Backslash>>)
              THEN PipJoinedFrom(lines, i + 1, line \o Front(l))
         ELSE <<line \o l>> \o PipJoinedFrom(lines, i + 1, <<>>)

PipJoined(lines) == PipJoinedFrom(lines, 1, <<>>)

\* the packages appended for the joined lines: the first field of each line
\* that has one
RECURSIVE PipPackages(_)
PipPackages(joined) ==
    IF joined = <<>> THEN <<>>
    ELSE LET pkgrow == FieldsFunc(Head(joined)) IN
         (IF Len(pkgrow) > 0 THEN <<TrimSpace(pkgrow[1])>> ELSE <<>>)
             \o PipPackages(Tail(joined))

\* the files a parser is given
ParserFiles(lang) ==
    CASE lang = "mvn" -> PomFiles
      [] lang = "composer" -> ComposerFiles
      [] lang = "pip" -> PipFiles

\* ReadPackagesFromFile(filename) is called on a new resolver
InitParse ==
    /\ prLang \in {"mvn", "composer", "pip"}
    /\ prReadable \in BOOLEAN
    /\ prContent \in ParserFiles(prLang)
    /\ prPackages = <<>> /\ prErr = FALSE /\ prWarned = FALSE
    /\ prPc = "call"
    /\ ScanIdle /\ SafeIdle /\ OrgIdle /\ WebIdle /\ PoolIdle /\ ResultIdle /\ RepoIdle
    /\ BlobIdle
    /\ FactoryIdle
    /\ CommandIdle
    /\ ContextIdle
    /\ ListIdle
    /\ TargetIdle
    /\ EcosystemIdle
    /\ WorkersIdle
    /\ DetailsIdle
    /\ TasksIdle

\* ioutil.ReadFile fails: return err
ReadFileFails ==
    /\ prPc = "call" /\ ~prReadable
    /\ prErr' = TRUE
    /\ prPc' = "returned"
    /\ UNCHANGED <<prLang, prReadable, prContent, prPackages, prWarned>>
    /\ ParseFrame

\* MVNLookup.ReadPackagesFromFile
ReadPom ==
    /\ prPc = "call" /\ prReadable /\ prLang = "mvn"
    /\ LET r == MvnRead(prContent) IN
           /\ prPackages' = prPackages \o r.packages
           /\ prErr' = r.err
           /\ prWarned' = r.warned
    /\ prPc' = "returned"
    /\ UNCHANGED <<prLang, prReadable, prContent>>
    /\ ParseFrame

\* ComposerLookup.ReadPackagesFromFile: the error of json.Unmarshal is
\* printed, then data.Require and data.RequireDev are ranged over
ReadComposerJson ==
    /\ prPc = "call" /\ prReadable /\ prLang = "composer"
    /\ LET data == JsonUnmarshal(prContent) IN
           /\ prWarned' = data.err
           /\ \E req \in Orders(data.Require), dev \in Orders(data.RequireDev) :
                  prPackages' = prPackages \o req \o dev
    /\ prErr' = FALSE
    /\ prPc' = "returned"
    /\ UNCHANGED <<prLang, prReadable, prContent>>
    /\ ParseFrame

\* the content is something the parser cannot make sense of
MalformedManifest ==
    CASE prLang = "mvn" ->
             prContent.size < MinPomBytes \/ prContent.damage # "none"
      [] prLang = "composer" ->
             \/ prContent.syntax = "invalid" \/ prContent.top # "object"
             \/ prContent.require.kind = "wrongtype"
             \/ prContent.requireDev.kind = "wrongtype"
      [] OTHER -> FALSE

\* C19 (as claimed): a pom.xml that is cut off, not XML or under 10 bytes,
\* and a composer.json that does not have the expected structure, make
\* ReadPackagesFromFile return no error and leave the package list empty.
C19_MalformedManifestYieldsNothing ==
    (prPc = "returned" /\ prReadable /\ MalformedManifest) =>
        /\ prErr = FALSE
        /\ prPackages = <<>>


\* PythonLookup.ReadPackagesFromFile
ReadRequirements ==
    /\ prPc = "call" /\ prReadable /\ prLang = "pip"
    /\ prPackages' = prPackages \o PipPackages(PipJoined(prContent))
    /\ prErr' = FALSE
    /\ prPc' = "returned"
    /\ UNCHANGED <<prLang, prReadable, prContent, prWarned>>
    /\ ParseFrame

NextParse == ReadFileFails \/ ReadPom \/ ReadComposerJson \/ ReadRequirements

SpecParse == InitParse /\ [][NextParse]_vars

\* the text of a joined line before its first delimiter
TextBeforeDelimiter(s) ==
    LET at == {k \in 1..Len(s) : pipSplit(s[k])} IN
        IF at = {} THEN s
        ELSE SubSeq(s, 1, (CHOOSE k \in at : \A j \in at : k <= j) - 1)

\* C20 (as claimed): the pip parser joins a line ending in the continuation
\* marker with the lines after it, and the identifier it returns for a
\* joined line is the text before the first of = < > ! ~ # [ and space:
\* "f==1\" followed by ".0" gives the one identifier "f", and no identifier
\* holds a delimiter or any of the text after the first delimiter.
C20_PipIdentifierIsTextBeforeDelimiter ==
    (prPc = "returned" /\ prReadable /\ prLang = "pip") =>
        LET split == SelectSeq(PipJoined(prContent), LAMBDA l : FieldsFunc(l) # <<>>) IN
            /\ prPackages = [k \in 1..Len(split) |-> TextBeforeDelimiter(split[k])]
            /\ \A k \in 1..Len(prPackages) :
                   \A j \in 1..Len(prPackages[k]) : ~pipSplit(prPackages[k][j])
            /\ prContent = << <<"f", "=", "=", "1", Backslash>>, <<".", "0">> >>
                   => prPackages = << <<"f">> >>


-----------------------------------------------------------------------------
(* The resolver factory *)

FactoryFrame ==
    UNCHANGED <<resolverVars, safeVars, orgVars, webVars, poolVars, srVars, ghVars,
                blobVars, parseVars, cmdVars, ctxVars, listVars, targetVars, ecoVars,
                wkVars, detailVars, sfVars>>

\* language arguments: the five the switch lists and others a caller may pass
FactoryNames ==
    {"npm", "pip", "composer", "mvn", "rubygems", "maven", "Pip", "pypi", "gem",
     "go", "nuget", ""}

NilResolver == [kind |-> "nil", Verbose |-> FALSE]

\* the switch of GetResolverForLanguage: the resolver and the error
ResolverForLanguage(lang) ==
    CASE lang = "pip" -> [resolver |-> [kind |-> "PythonLookup", Verbose |-> FALSE],
                          err |-> FALSE]
      [] lang = "npm" -> [resolver |-> [kind |-> "NPMLookup", Verbose |-> FALSE],
                          err |-> FALSE]
      [] lang = "composer" -> [resolver |-> [kind |-> "ComposerLookup", Verbose |-> FALSE],
                               err |-> FALSE]
      [] lang = "mvn" -> [resolver |-> [kind |-> "MVNLookup", Verbose |-> FALSE],
                          err |-> FALSE]
      [] lang = "rubygems" -> [resolver |-> [kind |-> "RubyGemsLookup", Verbose |-> FALSE],
                               err |-> FALSE]
      [] OTHER -> [resolver |-> NilResolver, err |-> TRUE]

\* variant: the verbose switch has no case for rubygems
ResolverForLanguageWithoutRubygems(lang, verbose) ==
    CASE lang = "pip" -> [resolver |-> [kind |-> "PythonLookup", Verbose |-> verbose],
                          err |-> FALSE]
      [] lang = "npm" -> [resolver |-> [kind |-> "NPMLookup", Verbose |-> verbose],
                          err |-> FALSE]
      [] lang = "composer" -> [resolver |-> [kind |-> "ComposerLookup", Verbose |-> verbose],
                               err |-> FALSE]
      [] lang = "mvn" -> [resolver |-> [kind |-> "MVNLookup", Verbose |-> verbose],
                          err |-> FALSE]
      [] OTHER -> [resolver |-> NilResolver, err |-> TRUE]

\* the switch of GetResolverForLanguageWithVerbose
ResolverForLanguageWithVerbose(lang, verbose) ==
    CASE lang = "pip" -> [resolver |-> [kind |-> "PythonLookup", Verbose |-> verbose],
                          err |-> FALSE]
      [] lang = "npm" -> [resolver |-> [kind |-> "NPMLookup", Verbose |-> verbose],
                          err |-> FALSE]
      [] lang = "composer" -> [resolver |-> [kind |-> "ComposerLookup", Verbose |-> verbose],
                               err |-> FALSE]
      [] lang = "mvn" -> [resolver |-> [kind |-> "MVNLookup", Verbose |-> verbose],
                          err |-> FALSE]
      [] lang = "rubygems" -> [resolver |-> [kind |-> "RubyGemsLookup", Verbose |-> verbose],
                               err |-> FALSE]
      [] OTHER -> [resolver |-> NilResolver, err |-> TRUE]

\* GetLanguage of the two resolvers whose files are not among the sources
GetLanguageUnlisted(kind) ==
    CASE kind = "NPMLookup" -> "npm"
      [] kind = "RubyGemsLookup" -> "rubygems"

\* GetLanguage of a resolver
GetLanguage(resolver) ==
    CASE resolver.kind = "PythonLookup" -> "pip"
      [] resolver.kind = "ComposerLookup" -> "composer"
      [] resolver.kind = "MVNLookup" -> "mvn"
      [] OTHER -> GetLanguageUnlisted(resolver.kind)

\* a caller is about to ask the factory for a resolver
InitFactory ==
    /\ fName \in FactoryNames
    /\ fVerbose \in BOOLEAN
    /\ fFunc \in {"plain", "verbose"}
    /\ fResolver = NilResolver /\ fErr = FALSE /\ fLang = "" /\ fPc = "call"
    /\ ScanIdle /\ SafeIdle /\ OrgIdle /\ WebIdle /\ PoolIdle /\ ResultIdle /\ RepoIdle
    /\ BlobIdle /\ ParseIdle
    /\ CommandIdle
    /\ ContextIdle
    /\ ListIdle
    /\ TargetIdle
    /\ EcosystemIdle
    /\ WorkersIdle
    /\ DetailsIdle
    /\ TasksIdle

\* GetResolverForLanguage(language)
GetResolverForLanguage ==
    /\ fPc = "call" /\ fFunc = "plain"
    /\ LET r == ResolverForLanguage(fName) IN
           /\ fResolver' = r.resolver
           /\ fErr' = r.err
    /\ fPc' = "returned"
    /\ UNCHANGED <<fName, fVerbose, fFunc, fLang>>
    /\ FactoryFrame

\* GetResolverForLanguageWithVerbose(language, verbose)
GetResolverForLanguageWithVerbose ==
    /\ fPc = "call" /\ fFunc = "verbose"
    /\ LET r == ResolverForLanguageWithVerbose(fName, fVerbose) IN
           /\ fResolver' = r.resolver
           /\ fErr' = r.err
    /\ fPc' = "returned"
    /\ UNCHANGED <<fName, fVerbose, fFunc, fLang>>
    /\ FactoryFrame

\* the caller asks the resolver it was given for its language
CallGetLanguage ==
    /\ fPc = "returned" /\ ~fErr
    /\ fLang' = GetLanguage(fResolver)
    /\ fPc' = "asked"
    /\ UNCHANGED <<fName, fVerbose, fFunc, fResolver, fErr>>
    /\ FactoryFrame

NextFactory ==
    GetResolverForLanguage \/ GetResolverForLanguageWithVerbose \/ CallGetLanguage

SpecFactory == InitFactory /\ [][NextFactory]_vars

\* what one call of the factory must have answered when the names in
\* supported are the ones it knows
FactoryAnswers(supported) ==
    /\ fPc # "call" =>
           IF fName \in supported
           THEN fErr = FALSE /\ fResolver # NilResolver
           ELSE fErr = TRUE /\ fResolver = NilResolver
    /\ (fPc = "asked" /\ fName \in supported) => fLang = fName

\* C21 (as claimed): for each of npm, pip, composer, maven and rubygems the
\* factory returns a resolver whose GetLanguage is that name, for every
\* other name it returns an error and no resolver, and both factory
\* functions accept the same names.
C21_FactoryKnowsMaven ==
    FactoryAnswers({"npm", "pip", "composer", "maven", "rubygems"})

\* C21 (amended): the five names are npm, pip, composer, mvn and rubygems;
\* for each of them both factory functions return a resolver whose
\* GetLanguage is that name, and for every other name, "maven" included,
\* both return an error and no resolver.
C21_FactoryKnowsMvn ==
    FactoryAnswers({"npm", "pip", "composer", "mvn", "rubygems"})

C21_Witness ==
    /\ fPc = "asked" /\ fFunc = "verbose" /\ fName = "mvn"
    /\ fResolver.kind = "MVNLookup" /\ fLang = "mvn"


-----------------------------------------------------------------------------
(* The scan commands of the CLI and the exit status of the process *)

CommandFrame ==
    UNCHANGED <<resolverVars, safeVars, orgVars, webVars, poolVars, srVars, ghVars,
                blobVars, parseVars, factoryVars, ctxVars, listVars, targetVars,
                ecoVars, wkVars, detailVars, sfVars>>

\* the most positional targets, lines of a target file and results of a scan
MaxArgs == 2
MaxFileLines == 2
MaxResults == 2

\* targets given on the command line
ArgTargets == {<<"s">>, <<"t">>}

\* lines of a target file: a target, a target with a blank before it, a
\* comment, an empty line
TargetLines == {<<"u">>, <<" ", "v">>, <<"#", "c">>, <<>>}

\* the --target-file flag: not given, or naming a file that can or cannot
\* be opened
NoTargetFile == [given |-> FALSE, readable |-> FALSE, lines |-> <<>>]

TargetFiles ==
    {NoTargetFile, [given |-> TRUE, readable |-> FALSE, lines |-> <<>>]}
      \cup [given : {TRUE}, readable : {TRUE}, lines : SeqsUpTo(TargetLines, MaxFileLines)]

\* a ScanResult as the commands see it: its Vulnerable list
CommandResults == {[Vulnerable |-> <<>>], [Vulnerable |-> <<N_l>>]}

\* ScanResult.IsVulnerable
IsVulnerable(sr) == Len(sr.Vulnerable) > 0

\* what the scan behind a command answers: an error, or its results
ScanAnswers(cmd) ==
    {[err |-> TRUE, results |-> <<>>]}
      \cup [err : {FALSE},
            results : IF cmd = "file" THEN {<<r>> : r \in CommandResults}
                      ELSE SeqsUpTo(CommandResults, MaxResults)]

\* readTargetFile: the lines that are neither blank nor comments, trimmed
RECURSIVE readTargetFile(_)
readTargetFile(lines) ==
    IF lines = <<>> THEN <<>>
    ELSE LET line == TrimSpace(Head(lines)) IN
         (IF line # <<>> /\ ~HasPrefix(line, <<"#">>) THEN <<line>> ELSE <<>>)
             \o readTargetFile(Tail(lines))

\* the user starts one of the scan commands
InitCommand ==
    /\ cCmd \in {"file", "repo", "org", "web"}
    /\ cArgs \in IF cCmd = "web" THEN SeqsUpTo(ArgTargets, MaxArgs) ELSE {<<>>}
    /\ cFile \in IF cCmd = "web" THEN TargetFiles ELSE {NoTargetFile}
    /\ cScan \in ScanAnswers(cCmd)
    /\ cTargets = <<>> /\ cResults = <<>> /\ cExit = -1 /\ cPc = "start"
    /\ ScanIdle /\ SafeIdle /\ OrgIdle /\ WebIdle /\ PoolIdle /\ ResultIdle /\ RepoIdle
    /\ BlobIdle /\ ParseIdle /\ FactoryIdle
    /\ ContextIdle
    /\ ListIdle
    /\ TargetIdle
    /\ EcosystemIdle
    /\ WorkersIdle
    /\ DetailsIdle
    /\ TasksIdle

\* runScanCommand: an error of the resolver is returned to main, which
\* exits with 1; otherwise the one result decides
RunScanCommand ==
    /\ cPc = "start" /\ cCmd = "file"
    /\ IF cScan.err
       THEN cResults' = <<>> /\ cExit' = 1
       ELSE /\ cResults' = cScan.results
            /\ cExit' = IF IsVulnerable(cScan.results[1]) THEN 1 ELSE 0
    /\ cPc' = "exited"
    /\ UNCHANGED <<cCmd, cArgs, cFile, cScan, cTargets>>
    /\ CommandFrame

\* runGitHubRepoCommand: prints the results and returns nil
RunGitHubRepoCommand ==
    /\ cPc = "start" /\ cCmd = "repo"
    /\ IF cScan.err
       THEN cResults' = <<>> /\ cExit' = 1
       ELSE cResults' = cScan.results /\ cExit' = 0
    /\ cPc' = "exited"
    /\ UNCHANGED <<cCmd, cArgs, cFile, cScan, cTargets>>
    /\ CommandFrame

\* runGitHubOrgCommand: prints the results and returns nil
RunGitHubOrgCommand ==
    /\ cPc = "start" /\ cCmd = "org"
    /\ IF cScan.err
       THEN cResults' = <<>> /\ cExit' = 1
       ELSE cResults' = cScan.results /\ cExit' = 0
    /\ cPc' = "exited"
    /\ UNCHANGED <<cCmd, cArgs, cFile, cScan, cTargets>>
    /\ CommandFrame

\* the Args check of the web command: without --target-file at least one
\* positional target is required
WebArgsRejected ==
    /\ cPc = "start" /\ cCmd = "web"
    /\ ~cFile.given /\ Len(cArgs) < 1
    /\ cExit' = 1
    /\ cPc' = "exited"
    /\ UNCHANGED <<cCmd, cArgs, cFile, cScan, cTargets, cResults>>
    /\ CommandFrame

\* runWebCommand, first part: the target file cannot be read
WebTargetFileFails ==
    /\ cPc = "start" /\ cCmd = "web"
    /\ cFile.given /\ ~cFile.readable
    /\ cExit' = 1
    /\ cPc' = "exited"
    /\ UNCHANGED <<cCmd, cArgs, cFile, cScan, cTargets, cResults>>
    /\ CommandFrame

\* runWebCommand, first part: targets from the target file or else from the
\* arguments
WebTargets ==
    /\ cPc = "start" /\ cCmd = "web"
    /\ IF cFile.given
       THEN cFile.readable /\ cTargets' = readTargetFile(cFile.lines)
       ELSE Len(cArgs) >= 1 /\ cTargets' = cArgs
    /\ cPc' = "targets"
    /\ UNCHANGED <<cCmd, cArgs, cFile, cScan, cResults, cExit>>
    /\ CommandFrame

\* runWebCommand, second part: scans the targets, prints the results and
\* returns nil
RunWebCommand ==
    /\ cPc = "targets" /\ cCmd = "web"
    /\ IF cScan.err
       THEN cResults' = <<>> /\ cExit' = 1
       ELSE cResults' = cScan.results /\ cExit' = 0
    /\ cPc' = "exited"
    /\ UNCHANGED <<cCmd, cArgs, cFile, cScan, cTargets>>
    /\ CommandFrame

NextCommand ==
    \/ RunScanCommand \/ RunGitHubRepoCommand \/ RunGitHubOrgCommand
    \/ WebArgsRejected \/ WebTargetFileFails \/ WebTargets \/ RunWebCommand

SpecCommand == InitCommand /\ [][NextCommand]_vars

\* the command failed: its arguments were rejected, the target file could
\* not be read, or the scan returned an error and no results
CommandFailed ==
    \/ cScan.err
    \/ cCmd = "web" /\ cFile.given /\ ~cFile.readable
    \/ cCmd = "web" /\ ~cFile.given /\ Len(cArgs) < 1

\* C22 (as claimed): whichever scan command ran, when its scan returned
\* results the process exits with a non-zero status exactly when one of
\* the returned results has a non-empty vulnerable list.
C22_ExitStatusIsVulnerableSignal ==
    (cPc = "exited" /\ ~CommandFailed) =>
        (cExit # 0 <=> \E k \in 1..Len(cResults) : IsVulnerable(cResults[k]))

\* C23 (as claimed): the targets the web command scans are the positional
\* targets together with every line of the target file that is neither
\* blank nor a comment.
C23_TargetsAreUnionOfInputs ==
    (cCmd = "web" /\ cPc = "targets") =>
        Range(cTargets) = Range(cArgs) \cup Range(readTargetFile(cFile.lines))


-----------------------------------------------------------------------------
(* A resolver with SetContext and SetTimeout, and a slow registry *)

ContextFrame ==
    UNCHANGED <<resolverVars, safeVars, orgVars, webVars, poolVars, srVars, ghVars,
                blobVars, parseVars, factoryVars, cmdVars, listVars, targetVars,
                ecoVars, wkVars, detailVars, sfVars>>

\* the most packages in the loop, the longest timeout and the longest wait
\* for an answer that is followed, in ticks
MaxCtxPkgs == 2
MaxTimeout == 2
MaxWait == 3

\* SetContext(ctx) and SetTimeout(d) have been called on a new resolver with
\* its packages read; PackagesNotInPublic is about to run
InitContext ==
    /\ kLang \in Languages
    /\ kTimeout \in 1..MaxTimeout
    /\ kPackages \in 1..MaxCtxPkgs
    /\ kCancelled = FALSE
    /\ kIdx = 1 /\ kRetry = 0 /\ kWaited = 0 /\ kLate = 0 /\ kPc = "loop"
    /\ ScanIdle /\ SafeIdle /\ OrgIdle /\ WebIdle /\ PoolIdle /\ ResultIdle /\ RepoIdle
    /\ BlobIdle /\ ParseIdle /\ FactoryIdle /\ CommandIdle
    /\ ListIdle
    /\ TargetIdle
    /\ EcosystemIdle
    /\ WorkersIdle
    /\ DetailsIdle
    /\ TasksIdle

\* the owner of the context cancels it
CancelContext ==
    /\ ~kCancelled /\ kPc # "done"
    /\ kCancelled' = TRUE
    /\ UNCHANGED <<kLang, kTimeout, kPackages, kIdx, kRetry, kWaited, kLate, kPc>>
    /\ ContextFrame

\* the request of isAvailableInPublic: http.Get(url) on the default client;
\* neither the stored context nor the stored timeout is consulted
SendRequest ==
    /\ kPc = "loop" /\ kIdx <= kPackages
    /\ kLate' = IF kCancelled THEN kLate + 1 ELSE kLate
    /\ kWaited' = 0
    /\ kPc' = "waiting"
    /\ UNCHANGED <<kLang, kTimeout, kPackages, kCancelled, kIdx, kRetry>>
    /\ ContextFrame

\* a tick passes and the registry has not answered
StillWaiting ==
    /\ kPc = "waiting" /\ kWaited < MaxWait
    /\ kWaited' = kWaited + 1
    /\ UNCHANGED <<kLang, kTimeout, kPackages, kCancelled, kIdx, kRetry, kLate, kPc>>
    /\ ContextFrame

\* the registry answers: the package is decided, or the request is
\* repeated after a 429 while retries remain
RegistryAnswers(resp) ==
    /\ kPc = "waiting"
    /\ IF Outcome(kLang, resp) = "retry" /\ kRetry < MaxRetry
       THEN kRetry' = kRetry + 1 /\ kIdx' = kIdx
       ELSE kRetry' = 0 /\ kIdx' = kIdx + 1
    /\ kWaited' = 0
    /\ kPc' = "loop"
    /\ UNCHANGED <<kLang, kTimeout, kPackages, kCancelled, kLate>>
    /\ ContextFrame

\* the range loop is over
ReturnNotAvailable ==
    /\ kPc = "loop" /\ kIdx > kPackages
    /\ kPc' = "done"
    /\ UNCHANGED <<kLang, kTimeout, kPackages, kCancelled, kIdx, kRetry, kWaited, kLate>>
    /\ ContextFrame

NextContext ==
    \/ CancelContext \/ SendRequest \/ StillWaiting
    \/ (\E resp \in Responses : RegistryAnswers(resp))
    \/ ReturnNotAvailable

SpecContext == InitContext /\ [][NextContext]_vars

\* C24 (as claimed): once the context given to SetContext is cancelled,
\* PackagesNotInPublic issues no further registry request, and no request
\* waits for its answer longer than the duration given to SetTimeout.
C24_ContextAndTimeoutHonoured ==
    /\ kLate = 0
    /\ kPc = "waiting" => kWaited <= kTimeout


-----------------------------------------------------------------------------
(* ScanRepository: which trees are fetched *)

\* the manifests of branch b have results read from b, one each
ManifestsIncluded(b) ==
    \A p \in Range(ManifestPaths) :
        Cardinality({k \in 1..Len(ghResults) :
                         ghOrigin[k] = b /\ ghResults[k].file_path = p})
            = IF ghTree[b][p] # 0 THEN 1 ELSE 0

-----------------------------------------------------------------------------
(* getOrganizationRepos: the paginated listing and its cap *)

ListFrame ==
    UNCHANGED <<resolverVars, safeVars, orgVars, webVars, poolVars, srVars, ghVars,
                blobVars, parseVars, factoryVars, cmdVars, ctxVars, targetVars,
                ecoVars, wkVars, detailVars, sfVars>>

\* the most repositories an organization has, and the repositories on one
\* page of Repositories.ListByOrg (100 in the code, scaled down)
MaxListed == 4
OrgPerPage == 2

\* the repositories of the organization, in the order of the listing
Listing(total) == [i \in 1..total |-> i]

\* the repositories on page `page`
ListByOrg(total, page) ==
    SubSeq(Listing(total), (page - 1) * OrgPerPage + 1,
           IF page * OrgPerPage < total THEN page * OrgPerPage ELSE total)

\* resp.NextPage of the answer for page `page`: 0 on the last page
OrgNextPage(total, page) == IF page * OrgPerPage < total THEN page + 1 ELSE 0

\* variant: the cap counts as reached only when it is exceeded
LimitExceeded(all, maxRepos) == Len(all) > maxRepos

\* `if len(allRepos) >= maxRepos`
LimitReached(all, maxRepos) == Len(all) >= maxRepos

\* ScanOrganization(org, languages, safeSpaces, maxRepos, deep) is called
InitList ==
    /\ lTotal \in 0..MaxListed
    /\ lMaxRepos \in 0..(MaxListed + 1)
    /\ lPage = 1 /\ lCalls = 0 /\ lAll = <<>> /\ lSubmitted = <<>>
    /\ lErr = FALSE /\ lPc = "list"
    /\ ScanIdle /\ SafeIdle /\ OrgIdle /\ WebIdle /\ PoolIdle /\ ResultIdle /\ RepoIdle
    /\ BlobIdle /\ ParseIdle /\ FactoryIdle /\ CommandIdle /\ ContextIdle
    /\ TargetIdle
    /\ EcosystemIdle
    /\ WorkersIdle
    /\ DetailsIdle
    /\ TasksIdle

\* Repositories.ListByOrg fails: getOrganizationRepos returns nil and the
\* error, and so does ScanOrganization
ListByOrgFails ==
    /\ lPc = "list"
    /\ lCalls' = lCalls + 1
    /\ lAll' = <<>>
    /\ lErr' = TRUE
    /\ lPc' = "done"
    /\ UNCHANGED <<lTotal, lMaxRepos, lPage, lSubmitted>>
    /\ ListFrame

\* one round of the loop of getOrganizationRepos
ListPage ==
    /\ lPc = "list"
    /\ lCalls' = lCalls + 1
    /\ LET got == lAll \o ListByOrg(lTotal, lPage) IN
           IF LimitReached(got, lMaxRepos)
           THEN /\ lAll' = SubSeq(got, 1, lMaxRepos)
                /\ lPage' = lPage
                /\ lPc' = "submit"
           ELSE /\ lAll' = got
                /\ IF OrgNextPage(lTotal, lPage) = 0
                   THEN lPage' = lPage /\ lPc' = "submit"
                   ELSE lPage' = OrgNextPage(lTotal, lPage) /\ lPc' = "list"
    /\ UNCHANGED <<lTotal, lMaxRepos, lSubmitted, lErr>>
    /\ ListFrame

\* one round of `for _, repo := range repos { workerPool.Submit(...) }`
SubmitRepo ==
    /\ lPc = "submit" /\ Len(lSubmitted) < Len(lAll)
    /\ lSubmitted' = Append(lSubmitted, lAll[Len(lSubmitted) + 1])
    /\ UNCHANGED <<lTotal, lMaxRepos, lPage, lCalls, lAll, lErr, lPc>>
    /\ ListFrame

\* the submit loop is over
SubmitDone ==
    /\ lPc = "submit" /\ Len(lSubmitted) = Len(lAll)
    /\ lPc' = "done"
    /\ UNCHANGED <<lTotal, lMaxRepos, lPage, lCalls, lAll, lSubmitted, lErr>>
    /\ ListFrame

NextList == ListByOrgFails \/ ListPage \/ SubmitRepo \/ SubmitDone

SpecList == InitList /\ [][NextList]_vars

\* the smaller of two numbers
Min(a, b) == IF a < b THEN a ELSE b

\* the fewest pages after which the cap is reached or the listing has no
\* more pages
PagesNeeded(total, maxRepos) ==
    CHOOSE k \in 1..(MaxListed + 1) :
        /\ Min(k * OrgPerPage, total) >= maxRepos \/ k * OrgPerPage >= total
        /\ \A j \in 1..(k - 1) :
               Min(j * OrgPerPage, total) < maxRepos /\ j * OrgPerPage < total

\* C26: for every maxRepos >= 0 a getOrganizationRepos that returned no
\* error has returned the first min(maxRepos, total) repositories of the
\* listing, after no more calls than it takes to reach the cap or the last
\* page, and ScanOrganization has then submitted one task for each of them.
C26_ListingCappedAtMaxRepos ==
    (lPc # "list" /\ ~lErr) =>
        /\ lAll = SubSeq(Listing(lTotal), 1, Min(lMaxRepos, lTotal))
        /\ Len(lAll) <= lMaxRepos
        /\ lCalls = PagesNeeded(lTotal, lMaxRepos)
        /\ lPc = "done" => lSubmitted = lAll

\* C26 witness: four repositories, a cap of three: two pages were asked for
\* and three tasks submitted.
C26_Witness ==
    /\ lPc = "done" /\ ~lErr
    /\ lTotal = 4 /\ lMaxRepos = 3 /\ lCalls = 2
    /\ lSubmitted = <<1, 2, 3>>


-----------------------------------------------------------------------------
(* Scanner.ScanTarget: the candidate paths of a web target *)

TargetFrame ==
    UNCHANGED <<resolverVars, safeVars, orgVars, webVars, poolVars, srVars, ghVars,
                blobVars, parseVars, factoryVars, cmdVars, ctxVars, listVars, ecoVars,
                wkVars, detailVars, sfVars>>

\* the largest maxDepth argument
MaxDepthArg == 2

\* the slice commonPaths and the map languagePaths of getDependencyFilePaths,
\* cut down to two of the five languages
commonPaths == << "composer.json", "composer.lock", "pom.xml" >>

languagePaths(lang) ==
    CASE lang = "composer" -> << "composer.json", "composer.lock" >>
      [] lang = "mvn" -> << "pom.xml" >>
      [] OTHER -> <<>>

\* the slice commonDirs of deepScan, cut down to two of the eleven names
commonDirs == << "src", "lib" >>

\* the paths for the languages from position i on
RECURSIVE PathsFrom(_, _)
PathsFrom(languages, i) ==
    IF i > Len(languages) THEN <<>>
    ELSE languagePaths(languages[i]) \o PathsFrom(languages, i + 1)

\* getDependencyFilePaths(languages)
getDependencyFilePaths(languages) ==
    IF Len(languages) > 0 THEN PathsFrom(languages, 1) ELSE commonPaths

\* variant: with a maxDepth of two or more a directory is also looked for
\* inside each directory
deepScanDirsRecursive(maxDepth) ==
    LET one == [d \in 1..Len(commonDirs) |-> <<commonDirs[d]>>]
    IN  IF maxDepth >= 2
        THEN one \o [d \in 1..Len(commonDirs) |-> <<commonDirs[d], commonDirs[1]>>]
        ELSE one

\* the directories deepScan goes through, each as its path segments; the
\* maxDepth argument is not looked at
deepScanDirs(maxDepth) == [d \in 1..Len(commonDirs) |-> <<commonDirs[d]>>]

\* variant: everything the server answered is taken for the file
FileFoundOnAnyStatus(resp) == resp # "err"

\* `resp.StatusCode != 200` and the transport error before it: the file is
\* there exactly on a 200
FileFound(resp) == resp = "200"

\* what client.Do can produce for a GET
WebResponses == {"err", "200", "404"}

\* ScanTarget(target, languages, deep, maxDepth) is called
InitTarget ==
    /\ tLanguages \in {<<>>, <<"composer">>, <<"mvn">>, <<"mvn", "composer">>, <<"npm">>}
    /\ tDeep \in BOOLEAN
    /\ tMaxDepth \in 0..MaxDepthArg
    /\ tParsable \in BOOLEAN
    /\ tDir = 1 /\ tIdx = 1
    /\ tRequests = <<>> /\ tResponses = <<>> /\ tResults = <<>>
    /\ tErr = FALSE /\ tPc = "parse"
    /\ ScanIdle /\ SafeIdle /\ OrgIdle /\ WebIdle /\ PoolIdle /\ ResultIdle /\ RepoIdle
    /\ BlobIdle /\ ParseIdle /\ FactoryIdle /\ CommandIdle /\ ContextIdle /\ ListIdle
    /\ EcosystemIdle
    /\ WorkersIdle
    /\ DetailsIdle
    /\ TasksIdle

\* url.Parse(target) fails: return nil and the error
ParseFails ==
    /\ tPc = "parse" /\ ~tParsable
    /\ tErr' = TRUE
    /\ tPc' = "returned"
    /\ UNCHANGED <<tLanguages, tDeep, tMaxDepth, tParsable, tDir, tIdx, tRequests,
                   tResponses, tResults>>
    /\ TargetFrame

\* url.Parse(target) succeeds
ParseTarget ==
    /\ tPc = "parse" /\ tParsable
    /\ tPc' = "root"
    /\ UNCHANGED <<tLanguages, tDeep, tMaxDepth, tParsable, tDir, tIdx, tRequests,
                   tResponses, tResults, tErr>>
    /\ TargetFrame

\* scanDependencyFile for a path: one GET; a result is appended when the
\* file was found, nothing otherwise
Probe(path, resp) ==
    /\ tRequests' = Append(tRequests, path)
    /\ tResponses' = Append(tResponses, resp)
    /\ tResults' = IF FileFound(resp) THEN Append(tResults, path) ELSE tResults

\* one round of the loop of ScanTarget over the file paths
ScanRootFile(resp) ==
    /\ tPc = "root" /\ tIdx <= Len(getDependencyFilePaths(tLanguages))
    /\ Probe(<<getDependencyFilePaths(tLanguages)[tIdx]>>, resp)
    /\ tIdx' = tIdx + 1
    /\ UNCHANGED <<tLanguages, tDeep, tMaxDepth, tParsable, tDir, tErr, tPc>>
    /\ TargetFrame

\* the loop over the file paths is over: `if deep`
RootDone ==
    /\ tPc = "root" /\ tIdx > Len(getDependencyFilePaths(tLanguages))
    /\ tPc' = IF tDeep THEN "deep" ELSE "returned"
    /\ tIdx' = 1
    /\ UNCHANGED <<tLanguages, tDeep, tMaxDepth, tParsable, tDir, tRequests, tResponses,
                   tResults, tErr>>
    /\ TargetFrame

\* scanDirectory: one round of its loop over the file paths, with
\* filepath.Join(dir, filePath)
ScanDirectoryFile(resp) ==
    /\ tPc = "deep" /\ tDir <= Len(deepScanDirs(tMaxDepth))
    /\ tIdx <= Len(getDependencyFilePaths(tLanguages))
    /\ Probe(deepScanDirs(tMaxDepth)[tDir]
                 \o <<getDependencyFilePaths(tLanguages)[tIdx]>>, resp)
    /\ tIdx' = tIdx + 1
    /\ UNCHANGED <<tLanguages, tDeep, tMaxDepth, tParsable, tDir, tErr, tPc>>
    /\ TargetFrame

\* scanDirectory returns; deepScan goes on to the next directory
NextDirectory ==
    /\ tPc = "deep" /\ tDir <= Len(deepScanDirs(tMaxDepth))
    /\ tIdx > Len(getDependencyFilePaths(tLanguages))
    /\ tDir' = tDir + 1
    /\ tIdx' = 1
    /\ UNCHANGED <<tLanguages, tDeep, tMaxDepth, tParsable, tRequests, tResponses,
                   tResults, tErr, tPc>>
    /\ TargetFrame

\* deepScan returns and ScanTarget returns results, nil
DeepDone ==
    /\ tPc = "deep" /\ tDir > Len(deepScanDirs(tMaxDepth))
    /\ tPc' = "returned"
    /\ UNCHANGED <<tLanguages, tDeep, tMaxDepth, tParsable, tDir, tIdx, tRequests,
                   tResponses, tResults, tErr>>
    /\ TargetFrame

NextTarget ==
    \/ ParseFails \/ ParseTarget
    \/ (\E resp \in WebResponses : ScanRootFile(resp))
    \/ RootDone
    \/ (\E resp \in WebResponses : ScanDirectoryFile(resp))
    \/ NextDirectory \/ DeepDone

SpecTarget == InitTarget /\ [][NextTarget]_vars

\* the file paths, each as a path of one segment
RootCandidates ==
    [i \in 1..Len(getDependencyFilePaths(tLanguages)) |->
         <<getDependencyFilePaths(tLanguages)[i]>>]

\* the file paths inside the directories from position d on
RECURSIVE DirCandidatesFrom(_)
DirCandidatesFrom(d) ==
    IF d > Len(commonDirs) THEN <<>>
    ELSE [i \in 1..Len(getDependencyFilePaths(tLanguages)) |->
              <<commonDirs[d], getDependencyFilePaths(tLanguages)[i]>>]
             \o DirCandidatesFrom(d + 1)

\* the candidate paths of the target
Candidates == RootCandidates \o (IF tDeep THEN DirCandidatesFrom(1) ELSE <<>>)

-----------------------------------------------------------------------------
(* processWebTargetsWithWorkers: which worker scans which target *)

RECURSIVE BatchesInOrder(_)
\* what the targets in the order given contribute, one after the other:
\* nothing for a failing target, its results for any other
BatchesInOrder(order) ==
    IF order = <<>> THEN <<>>
    ELSE (IF Head(order) \in wtFailing THEN <<>> ELSE TargetResults(Head(order)))
             \o BatchesInOrder(Tail(order))

\* the workers that are inside ScanTarget for target t
ScanningWorkers(t) == {w \in WebWorkers : wtJob[w] = t /\ wtState[w] = "scanning"}

\* C29: with at least one worker, no target is received from targetChan
\* more than once and each received target is scanned once by the one worker
\* that received it; a worker holds a target exactly while it scans it and
\* sends its batch, so it takes the next only after the current one; and when the
\* function has returned every target has been scanned once, the failing
\* ones have been logged, and the aggregate is the batches of all targets
\* one after the other in some order, empty for the failing ones.
C29_EachTargetScannedOnce ==
    wtWorkers >= 1 =>
        /\ \A t \in Range(wtTargets) :
               /\ wtTakes[t] <= 1
               /\ wtScans[t] <= wtTakes[t]
               /\ Cardinality(ScanningWorkers(t)) = wtTakes[t] - wtScans[t]
        /\ \A w \in WebWorkers : (wtJob[w] # 0) <=> (wtState[w] \in {"scanning", "sending"})
        /\ wtPc = "returned" =>
               /\ \A t \in Range(wtTargets) : wtTakes[t] = 1 /\ wtScans[t] = 1
               /\ wtWarned = wtFailing
               /\ \E order \in Orders(Range(wtTargets)) : wtAll = BatchesInOrder(order)

\* C29 witness: two workers have scanned three targets, the second of them
\* failing, and the function has returned the results of the other two.
C29_Witness ==
    /\ wtPc = "returned" /\ wtWorkers = 2 /\ Len(wtTargets) = 3 /\ wtFailing = {2}
    /\ \A t \in Range(wtTargets) : wtScans[t] = 1
    /\ wtWarned = {2}
    /\ Len(wtAll) = Len(TargetResults(1)) + Len(TargetResults(3))


-----------------------------------------------------------------------------
(* processWebTargetsWithWorkers while one target does not answer *)

\* the call with two or more workers and one target whose server is slow;
\* every ScanTarget call that returns succeeds
InitSlow == InitWeb /\ wtWorkers >= 2 /\ wtSlow # 0 /\ wtFailing = {}

\* every goroutine that can take a step eventually takes one; only the
\* ScanTarget call for the slow target may stay blocked for ever
FairSpecSlow ==
    /\ InitSlow /\ [][NextWeb]_vars
    /\ WF_vars(SendTarget) /\ WF_vars(CloseTargets)
    /\ \A w \in 1..MaxWebWorkers :
           /\ WF_vars(TakeTarget(w)) /\ WF_vars(ScanDone(w))
           /\ WF_vars(SendResults(w)) /\ WF_vars(WebWorkerDone(w))
    /\ WF_vars(CloseResults) /\ WF_vars(CollectWeb) /\ WF_vars(ReturnWeb)

\* a worker is inside ScanTarget for the slow target
SlowInProgress == \E w \in WebWorkers : wtState[w] = "scanning" /\ wtJob[w] = wtSlow

\* every target but the slow one has been scanned and its batch has been
\* sent into resultChan
OthersProduced ==
    /\ \A t \in Range(wtTargets) \ {wtSlow} : wtScans[t] = 1
    /\ \A w \in WebWorkers : wtState[w] = "sending" => wtJob[w] = wtSlow

\* C30: with two or more workers, however long the scan of the slow target
\* stays blocked, every other target is eventually scanned and its batch
\* sent by the remaining workers.
C30_SlowTargetDelaysOnlyItsWorker ==
    (wtWorkers >= 2 /\ wtSlow # 0) ~> OthersProduced

\* C30 witness: of three targets the first is slow and still being scanned
\* by one of two workers, while the other two have been scanned and their
\* batches sent.
C30_Witness ==
    /\ wtWorkers = 2 /\ Len(wtTargets) = 3 /\ wtSlow = 1
    /\ SlowInProgress
    /\ OthersProduced
    /\ \A w \in WebWorkers : wtState[w] # "sending"


-----------------------------------------------------------------------------
(* the ecosystem names a scan command is called with *)

\* everything but the state of the command is left alone
EcosystemFrame ==
    UNCHANGED <<resolverVars, safeVars, orgVars, webVars, poolVars, srVars, ghVars,
                blobVars, parseVars, factoryVars, cmdVars, ctxVars, listVars,
                targetVars, wkVars, detailVars, sfVars>>

MaxLanguages == 2

\* names a user may pass: three the tool knows and one it does not
EcosystemNames == {"pip", "composer", "mvn", "cargo"}

LanguageLists == UNION {[1..n -> EcosystemNames] : n \in 0..MaxLanguages}

\* the map filePatterns of Client.findDependencyFiles, cut down to three of
\* the five languages and one file name each; <<>> stands for `!exists`
filePatterns(lang) ==
    CASE lang = "pip" -> << "requirements.txt" >>
      [] lang = "composer" -> << "composer.json" >>
      [] lang = "mvn" -> << "pom.xml" >>
      [] OTHER -> <<>>

\* the names the resolver factory has a case for
Supported(lang) == ~ResolverForLanguageWithVerbose(lang, FALSE).err

\* a scan command is started: `scan` with its language flag, `github` or
\* `web` with their languages flag
InitEcosystem ==
    /\ eKind \in {"file", "github", "web"}
    /\ eLanguages \in LanguageLists
    /\ eKind = "file" => Len(eLanguages) = 1
    /\ eIdx = 1 /\ ePatterns = <<>> /\ eScanned = 0 /\ eErr = "" /\ ePc = "start"
    /\ ScanIdle /\ SafeIdle /\ OrgIdle /\ WebIdle /\ PoolIdle /\ ResultIdle
    /\ RepoIdle /\ BlobIdle /\ ParseIdle /\ FactoryIdle /\ CommandIdle
    /\ ContextIdle /\ ListIdle /\ TargetIdle
    /\ WorkersIdle
    /\ DetailsIdle
    /\ TasksIdle

\* runScanCommand: GetResolverForLanguageWithVerbose fails, the error is
\* returned before the file is read
LocalUnsupported ==
    /\ eKind = "file" /\ ePc = "start"
    /\ ~Supported(eLanguages[1])
    /\ eErr' = "unsupported" /\ ePc' = "returned"
    /\ UNCHANGED <<eKind, eLanguages, eIdx, ePatterns, eScanned>>
    /\ EcosystemFrame

\* runScanCommand: the resolver reads the file and checks its packages
LocalScan ==
    /\ eKind = "file" /\ ePc = "start"
    /\ Supported(eLanguages[1])
    /\ eScanned' = 1 /\ ePc' = "returned"
    /\ UNCHANGED <<eKind, eLanguages, eIdx, ePatterns, eErr>>
    /\ EcosystemFrame

\* the patterns one language adds in findDependencyFiles (github) or
\* getDependencyFilePaths (web): none if the map has no entry for it
PatternsOf(kind, lang) ==
    IF kind = "github" THEN filePatterns(lang) ELSE languagePaths(lang)

\* getDependencyFilePaths with an empty languages slice: paths = commonPaths
CollectCommon ==
    /\ eKind = "web" /\ ePc = "start" /\ eLanguages = <<>>
    /\ ePatterns' = commonPaths
    /\ ePc' = "scan"
    /\ UNCHANGED <<eKind, eLanguages, eIdx, eScanned, eErr>>
    /\ EcosystemFrame

\* one turn of `for _, lang := range languages` for a name the map holds
CollectPatterns ==
    /\ eKind \in {"github", "web"} /\ ePc = "start"
    /\ eIdx <= Len(eLanguages)
    /\ PatternsOf(eKind, eLanguages[eIdx]) # <<>>
    /\ ePatterns' = ePatterns \o PatternsOf(eKind, eLanguages[eIdx])
    /\ eIdx' = eIdx + 1
    /\ UNCHANGED <<eKind, eLanguages, eScanned, eErr, ePc>>
    /\ EcosystemFrame

\* one turn of the loop for a name the map does not hold: nothing is added
\* and nothing is reported
SkipLanguage ==
    /\ eKind \in {"github", "web"} /\ ePc = "start"
    /\ eIdx <= Len(eLanguages)
    /\ PatternsOf(eKind, eLanguages[eIdx]) = <<>>
    /\ eIdx' = eIdx + 1
    /\ UNCHANGED <<eKind, eLanguages, ePatterns, eScanned, eErr, ePc>>
    /\ EcosystemFrame

\* the loop over the languages has ended
CollectDone ==
    /\ eKind \in {"github", "web"} /\ ePc = "start"
    /\ eIdx > Len(eLanguages)
    /\ ~(eKind = "web" /\ eLanguages = <<>>)
    /\ ePc' = "scan"
    /\ UNCHANGED <<eKind, eLanguages, eIdx, ePatterns, eScanned, eErr>>
    /\ EcosystemFrame

\* scanDependencyFile for the next collected manifest name
ScanManifest ==
    /\ ePc = "scan" /\ eScanned < Len(ePatterns)
    /\ eScanned' = eScanned + 1
    /\ UNCHANGED <<eKind, eLanguages, eIdx, ePatterns, eErr, ePc>>
    /\ EcosystemFrame

\* the scan returns its results and a nil error
ReturnScanned ==
    /\ ePc = "scan" /\ eScanned = Len(ePatterns)
    /\ ePc' = "returned"
    /\ UNCHANGED <<eKind, eLanguages, eIdx, ePatterns, eScanned, eErr>>
    /\ EcosystemFrame

NextEcosystem ==
    \/ LocalUnsupported
    \/ LocalScan
    \/ CollectCommon
    \/ CollectPatterns
    \/ SkipLanguage
    \/ CollectDone
    \/ ScanManifest
    \/ ReturnScanned

SpecEcosystem == InitEcosystem /\ [][NextEcosystem]_vars

\* the requested set holds a name the resolver factory does not know
UnknownRequested == \E i \in DOMAIN eLanguages : ~Supported(eLanguages[i])

\* C31: in every scan kind, when the requested ecosystems hold an unknown
\* name nothing is scanned and the command returns the unsupported error.
C31_UnknownEcosystemFailsFast ==
    (ePc # "returned" \/ eKind # "") /\ UnknownRequested =>
        /\ eScanned = 0
        /\ ePc = "returned" => eErr = "unsupported"


-----------------------------------------------------------------------------
(* a pip manifest that names a package more than once *)

MaxCopies == 3

\* requirement lines: two spellings of the package f, and the package g
RepeatLines == { <<"f">>, <<"f", "=", "=", "1">>, <<" ", "g", " ">> }

RepeatFiles == {c \in SeqsUpTo(RepeatLines, MaxCopies) : c # <<>>}

\* runScanCommand on a requirements file: ReadPackagesFromFile has filled
\* Packages and PackagesNotInPublic is about to range over it
InitRepeat ==
    /\ prLang = "pip" /\ prReadable = TRUE
    /\ prContent \in RepeatFiles
    /\ prPackages = PipPackages(PipJoined(prContent))
    /\ prErr = FALSE /\ prWarned = FALSE /\ prPc = "returned"
    /\ scanType = "file" /\ language = "pip" /\ safeSpaces = <<>>
    /\ Packages = prPackages
    /\ ScanStart
    /\ SafeIdle /\ OrgIdle /\ WebIdle /\ PoolIdle /\ ResultIdle /\ RepoIdle
    /\ BlobIdle /\ FactoryIdle /\ CommandIdle /\ ContextIdle /\ ListIdle
    /\ TargetIdle /\ EcosystemIdle
    /\ WorkersIdle
    /\ DetailsIdle
    /\ TasksIdle

\* the steps of a pip scan: PythonLookup has no skipped references, no
\* retries and no empty group
NextRepeat ==
    \/ CallIsAvailable
    \/ \E resp \in Responses : HttpGet(resp)
    \/ FinishScan

SpecRepeat == InitRepeat /\ [][NextRepeat]_vars

\* the lines of the manifest that name package n
LinesNaming(n) ==
    {i \in DOMAIN prContent : TextBeforeDelimiter(TrimSpace(prContent[i])) = n}

\* the references of package n that the registry did not have
MissingChecks(n) ==
    {i \in DOMAIN Packages : Packages[i] = n /\ i < idx /\ StatusCode(last[i]) # "200"}

\* C32: a package named on k lines of a pip manifest gives k references
\* (GetPackageCount counts every occurrence), each reference the loop has
\* passed was checked against the registry on its own, and when the scan
\* is done the vulnerable list holds the package once for every check the
\* registry did not answer with 200: k times if it is missing.
C32_DuplicatesAreKept ==
    prContent # <<>> =>
        /\ Len(Packages) = Len(prContent)
        /\ \A n \in Range(Packages) :
               /\ Occurrences(Packages, n) = Cardinality(LinesNaming(n))
               /\ \A i \in DOMAIN Packages : i < idx => last[i] # "none"
               /\ Occurrences(notavail, n) = Cardinality(MissingChecks(n))
               /\ pc = "done" =>
                      Occurrences(result.Vulnerable, n) = Cardinality(MissingChecks(n))

\* C32 witness: the manifest names f on three lines, the registry had it
\* on none of the three checks, and the result lists f three times.
C32_Witness ==
    /\ pc = "done" /\ Len(prContent) = 3
    /\ Cardinality(LinesNaming(<<"f">>)) = 3
    /\ \A i \in 1..3 : last[i] = "404"
    /\ result.Vulnerable = << <<"f">>, <<"f">>, <<"f">> >>
    /\ result.Total = 3


-----------------------------------------------------------------------------
(* `confused github org`: the worker count from the flags to the pool *)

\* everything but the set-up of the command is left alone
WorkersFrame ==
    UNCHANGED <<resolverVars, safeVars, orgVars, webVars, poolVars, srVars, ghVars,
                blobVars, parseVars, factoryVars, cmdVars, ctxVars, listVars,
                targetVars, ecoVars, detailVars, sfVars>>

\* the default of config.Default, of the persistent workers flag and of the
\* workers flag of orgCmd
DefaultWorkers == 10

\* the largest worker count tried on the command line or in the config file
MaxWorkersArg == 3

\* main: config.Default(), the persistent flag bound to cfg.Workers and the
\* workers flag of orgCmd are set up with their defaults
InitWorkers ==
    /\ wkArg \in 0..MaxWorkersArg
    /\ wkFile \in 0..MaxWorkersArg
    /\ wkCfg = DefaultWorkers /\ wkFlag = DefaultWorkers
    /\ wkCli = 0 /\ wkLogged = 0 /\ wkPool = 0 /\ wkStarted = 0
    /\ wkPc = "parse"
    /\ ScanIdle /\ SafeIdle /\ OrgIdle /\ WebIdle /\ PoolIdle /\ ResultIdle
    /\ RepoIdle /\ BlobIdle /\ ParseIdle /\ FactoryIdle /\ CommandIdle
    /\ ContextIdle /\ ListIdle /\ TargetIdle /\ EcosystemIdle
    /\ DetailsIdle
    /\ TasksIdle

\* the flags are parsed: orgCmd has a workers flag of its own, which hides
\* the persistent flag of the same name, so --workers is stored there
FlagSet(arg, cfgw, flag) ==
    IF arg # 0 THEN [cfg |-> cfgw, flag |-> arg] ELSE [cfg |-> cfgw, flag |-> flag]

ParseFlags ==
    /\ wkPc = "parse"
    /\ wkCfg' = FlagSet(wkArg, wkCfg, wkFlag).cfg
    /\ wkFlag' = FlagSet(wkArg, wkCfg, wkFlag).flag
    /\ wkPc' = "load"
    /\ UNCHANGED <<wkArg, wkFile, wkCli, wkLogged, wkPool, wkStarted>>
    /\ WorkersFrame

\* config.Load: cliWorkers := cfg.Workers
LoadStore ==
    /\ wkPc = "load"
    /\ wkCli' = wkCfg
    /\ wkPc' = "unmarshal"
    /\ UNCHANGED <<wkArg, wkFile, wkCfg, wkFlag, wkLogged, wkPool, wkStarted>>
    /\ WorkersFrame

\* config.Load: viper.Unmarshal(cfg) stores the value of the config file
LoadUnmarshal ==
    /\ wkPc = "unmarshal"
    /\ wkCfg' = IF wkFile # 0 THEN wkFile ELSE wkCfg
    /\ wkPc' = "restore"
    /\ UNCHANGED <<wkArg, wkFile, wkCli, wkFlag, wkLogged, wkPool, wkStarted>>
    /\ WorkersFrame

\* config.Load: `if cliWorkers > 0 { cfg.Workers = cliWorkers }`
LoadRestore ==
    /\ wkPc = "restore"
    /\ wkCfg' = IF wkCli > 0 THEN wkCli ELSE wkCfg
    /\ wkPc' = "run"
    /\ UNCHANGED <<wkArg, wkFile, wkCli, wkFlag, wkLogged, wkPool, wkStarted>>
    /\ WorkersFrame

\* runGitHubOrgCommand: workers, _ := cmd.Flags().GetInt("workers"); logged
ReadWorkersFlag ==
    /\ wkPc = "run"
    /\ wkLogged' = wkFlag
    /\ wkPc' = "pool"
    /\ UNCHANGED <<wkArg, wkFile, wkCfg, wkCli, wkFlag, wkPool, wkStarted>>
    /\ WorkersFrame

\* ScanOrganization: types.NewWorkerPool(gc.config.Workers)
NewOrgPool ==
    /\ wkPc = "pool"
    /\ wkPool' = wkCfg
    /\ wkPc' = "start"
    /\ UNCHANGED <<wkArg, wkFile, wkCfg, wkCli, wkFlag, wkLogged, wkStarted>>
    /\ WorkersFrame

\* WorkerPool.Start: one more worker goroutine
StartOrgWorker ==
    /\ wkPc = "start" /\ wkStarted < wkPool
    /\ wkStarted' = wkStarted + 1
    /\ UNCHANGED <<wkArg, wkFile, wkCfg, wkCli, wkFlag, wkLogged, wkPool, wkPc>>
    /\ WorkersFrame

\* WorkerPool.Start returns; the repository scans are submitted
OrgPoolStarted ==
    /\ wkPc = "start" /\ wkStarted = wkPool
    /\ wkPc' = "scanning"
    /\ UNCHANGED <<wkArg, wkFile, wkCfg, wkCli, wkFlag, wkLogged, wkPool, wkStarted>>
    /\ WorkersFrame

NextWorkers ==
    \/ ParseFlags
    \/ LoadStore
    \/ LoadUnmarshal
    \/ LoadRestore
    \/ ReadWorkersFlag
    \/ NewOrgPool
    \/ StartOrgWorker
    \/ OrgPoolStarted

SpecWorkers == InitWorkers /\ [][NextWorkers]_vars

\* the worker count the user configured for the command
ConfiguredWorkers == IF wkArg # 0 THEN wkArg ELSE DefaultWorkers

\* C33: the pool of an organization scan has as many workers as the user
\* configured with --workers (10 if not given), and that is the count the
\* command read and logged.
C33_PoolSizeIsConfiguredWorkers ==
    (wkPool # 0 /\ wkPc = "scanning") =>
        /\ wkLogged = ConfiguredWorkers
        /\ wkPool = wkLogged
        /\ wkStarted = ConfiguredWorkers


-----------------------------------------------------------------------------
(* ComposerLookup.GetPackageDetails *)

\* everything but the state of the call is left alone
DetailsFrame ==
    UNCHANGED <<resolverVars, safeVars, orgVars, webVars, poolVars, srVars, ghVars,
                blobVars, parseVars, factoryVars, cmdVars, ctxVars, listVars,
                targetVars, ecoVars, wkVars, sfVars>>

\* composer references: two from the registry, and one each pinned to a
\* file, a URL and a git repository
DetailPackages ==
    { [Name |-> N_cf, Version |-> <<"^","3">>],
      [Name |-> N_l, Version |-> <<"^","3">>],
      [Name |-> N_of, Version |-> <<"f","i","l","e",":","x">>],
      [Name |-> N_of, Version |-> <<"h","t","t","p","s",":","x">>],
      [Name |-> N_of, Version |-> <<"g","i","t",":","x">>] }

\* GetPackageDetails is called on a resolver that has read its manifest and
\* has no details yet
InitDetails ==
    /\ dPackages \in SeqsUpTo(DetailPackages, MaxPkgs)
    /\ dIdx = 1 /\ dRetry = 0
    /\ dRequests = [i \in 1..Len(dPackages) |-> 0]
    /\ dDetails = <<>>
    /\ dPc = "loop"
    /\ ScanIdle /\ SafeIdle /\ OrgIdle /\ WebIdle /\ PoolIdle /\ ResultIdle
    /\ RepoIdle /\ BlobIdle /\ ParseIdle /\ FactoryIdle /\ CommandIdle
    /\ ContextIdle /\ ListIdle /\ TargetIdle /\ EcosystemIdle /\ WorkersIdle
    /\ TasksIdle

\* types.PackageDetail for the reference at dIdx, appended to packageDetails
AppendDetail(vulnerable) ==
    /\ dDetails' = Append(dDetails, [Name |-> dPackages[dIdx].Name,
                                     Version |-> dPackages[dIdx].Version,
                                     Vulnerable |-> vulnerable])
    /\ dIdx' = dIdx + 1
    /\ dPc' = "loop"

\* buildPackageDetails: the loop body calls isAvailableInPublic(pkg.Name, 0)
\* for every entry of c.Packages
DetailCall ==
    /\ dPc = "loop" /\ dIdx <= Len(dPackages)
    /\ dRetry' = 0
    /\ dPc' = "check"
    /\ UNCHANGED <<dPackages, dIdx, dRequests, dDetails>>
    /\ DetailsFrame

\* `if retry > 3 { return false }`
DetailRetriesExhausted ==
    /\ dPc = "check" /\ dRetry > MaxRetry
    /\ AppendDetail(TRUE)
    /\ UNCHANGED <<dPackages, dRetry, dRequests>>
    /\ DetailsFrame

\* http.Get to packagist for the name and the handling of its answer
DetailHttpGet(resp) ==
    /\ dPc = "check" /\ dRetry <= MaxRetry
    /\ dRequests' = [dRequests EXCEPT ![dIdx] = @ + 1]
    /\ IF Outcome("composer", resp) = "retry"
       THEN /\ dRetry' = dRetry + 1
            /\ UNCHANGED <<dIdx, dDetails, dPc>>
       ELSE /\ AppendDetail(Outcome("composer", resp) # "available")
            /\ UNCHANGED dRetry
    /\ UNCHANGED dPackages
    /\ DetailsFrame

\* buildPackageDetails is through; GetPackageDetails returns c.packageDetails
ReturnDetails ==
    /\ dPc = "loop" /\ dIdx > Len(dPackages)
    /\ dPc' = "returned"
    /\ UNCHANGED <<dPackages, dIdx, dRetry, dRequests, dDetails>>
    /\ DetailsFrame

NextDetails ==
    \/ DetailCall
    \/ DetailRetriesExhausted
    \/ \E resp \in Responses : DetailHttpGet(resp)
    \/ ReturnDetails

SpecDetails == InitDetails /\ [][NextDetails]_vars

\* C34: GetPackageDetails issues no registry request for a composer
\* reference whose version is a file:, http(s): or git reference, and its
\* detail is never marked vulnerable.
C34_DetailsSkipNonRegistry ==
    \A i \in DOMAIN dPackages :
        SkippedReference("composer", dPackages[i]) =>
            /\ dRequests[i] = 0
            /\ i <= Len(dDetails) => ~dDetails[i].Vulnerable


-----------------------------------------------------------------------------
(* WorkerPool: how many jobs run and wait at a time *)

\* the jobs that have been received from the queue and have not returned
PoolExecuting ==
    {j \in 1..pSubmitted : j \notin Range(pQueue) /\ pExecuted[j] = 0}

\* C35: in a pool of N workers at most N jobs are executing and at most
\* 2*N are waiting in the queue at any time, and a worker that is inside a
\* job, whatever the job does, receives no other job before it returns.
C35_PoolBoundsJobs ==
    /\ [](/\ Cardinality(PoolExecuting) <= pWorkers
          /\ Len(pQueue) <= 2 * pWorkers
          /\ \A w \in PoolWorkers : pState[w] = "running" <=> pJob[w] \in PoolExecuting)
    /\ [][\A w \in PoolWorkers :
              (pState[w] = "running" /\ pJob'[w] # pJob[w]) =>
                  (pJob'[w] = 0 /\ pExecuted'[pJob[w]] = pExecuted[pJob[w]] + 1)]_vars

\* C35 witness: the one worker of a pool is inside a job and two more jobs,
\* as many as the queue takes, are waiting.
C35_Witness ==
    /\ pWorkers = 1 /\ pState[1] = "running"
    /\ Cardinality(PoolExecuting) = 1
    /\ Len(pQueue) = 2


-----------------------------------------------------------------------------
(* scanDependencyFile calls running side by side: resolvers and temp files *)

\* everything but the state of the calls is left alone
TasksFrame ==
    UNCHANGED <<resolverVars, safeVars, orgVars, webVars, poolVars, srVars, ghVars,
                blobVars, parseVars, factoryVars, cmdVars, ctxVars, listVars,
                targetVars, ecoVars, wkVars, detailVars>>

\* the calls that run at the same time
MaxScanTasks == 2

ScanTasks == 1..MaxScanTasks

\* the identifiers of the manifests fetched
TaskManifests == { <<"a">>, <<"b", "a">> }

\* variant: the factory hands out the resolver it made first
SharedResolver(heap) == 1

\* NewPythonLookup and the like: a pointer to a new struct
FreshResolver(heap) == Len(heap) + 1

\* os.Remove(name)
Remove(fs, name) == [n \in DOMAIN fs \ {name} |-> fs[n]]

\* variant: the temp file is removed only when the call succeeds
RemoveOnSuccess(fs, name, failed) == IF failed THEN fs ELSE Remove(fs, name)

\* `defer os.Remove(tempFile)` / `defer s.cleanupTempFile(tempFile)` when
\* scanDependencyFile returns, with or without an error
DeferredRemove(fs, name, failed) == Remove(fs, name)

\* the calls have fetched their content and found its language
InitTasks ==
    /\ sfKind \in {"github", "web"}
    /\ sfManifest \in [ScanTasks -> TaskManifests]
    /\ sfPc = [t \in ScanTasks |-> "start"]
    /\ sfRes = [t \in ScanTasks |-> 0]
    /\ sfHeap = <<>>
    /\ sfFile = [t \in ScanTasks |-> 0]
    /\ sfFs = <<>>
    /\ sfCreated = 0
    /\ sfVulnerable = [t \in ScanTasks |-> <<>>]
    /\ sfErr = [t \in ScanTasks |-> FALSE]
    /\ ScanIdle /\ SafeIdle /\ OrgIdle /\ WebIdle /\ PoolIdle /\ ResultIdle
    /\ RepoIdle /\ BlobIdle /\ ParseIdle /\ FactoryIdle /\ CommandIdle
    /\ ContextIdle /\ ListIdle /\ TargetIdle /\ EcosystemIdle /\ WorkersIdle
    /\ DetailsIdle

\* the call of task t returns an error
TaskFails(t) ==
    /\ sfErr' = [sfErr EXCEPT ![t] = TRUE]
    /\ sfPc' = [sfPc EXCEPT ![t] = "done"]

\* getResolverForLanguage(language)
TaskGetResolver(t) ==
    /\ sfPc[t] = "start"
    /\ LET r == FreshResolver(sfHeap) IN
           /\ sfRes' = [sfRes EXCEPT ![t] = r]
           /\ sfHeap' = IF r > Len(sfHeap) THEN Append(sfHeap, <<>>) ELSE sfHeap
    /\ sfPc' = [sfPc EXCEPT ![t] = "create"]
    /\ UNCHANGED <<sfKind, sfManifest, sfFile, sfFs, sfCreated, sfVulnerable, sfErr>>
    /\ TasksFrame

\* createTempFile: os.CreateTemp makes a new, empty file under a new name
TaskCreateTemp(t) ==
    /\ sfPc[t] = "create"
    /\ sfCreated' = sfCreated + 1
    /\ sfFile' = [sfFile EXCEPT ![t] = sfCreated + 1]
    /\ sfFs' = [n \in DOMAIN sfFs \cup {sfCreated + 1} |->
                    IF n = sfCreated + 1 THEN <<>> ELSE sfFs[n]]
    /\ sfPc' = [sfPc EXCEPT ![t] = "write"]
    /\ UNCHANGED <<sfKind, sfManifest, sfRes, sfHeap, sfVulnerable, sfErr>>
    /\ TasksFrame

\* createTempFile: os.CreateTemp fails, no file exists
TaskCreateTempFails(t) ==
    /\ sfPc[t] = "create"
    /\ TaskFails(t)
    /\ UNCHANGED <<sfKind, sfManifest, sfRes, sfHeap, sfFile, sfFs, sfCreated,
                   sfVulnerable>>
    /\ TasksFrame

\* createTempFile: tempFile.Write(content)
TaskWrite(t) ==
    /\ sfPc[t] = "write"
    /\ sfFs' = [sfFs EXCEPT ![sfFile[t]] = sfManifest[t]]
    /\ sfPc' = [sfPc EXCEPT ![t] = "close"]
    /\ UNCHANGED <<sfKind, sfManifest, sfRes, sfHeap, sfFile, sfCreated,
                   sfVulnerable, sfErr>>
    /\ TasksFrame

\* createTempFile: Write fails; Close, os.Remove, return the error
TaskWriteFails(t) ==
    /\ sfPc[t] = "write"
    /\ sfFs' = Remove(sfFs, sfFile[t])
    /\ TaskFails(t)
    /\ UNCHANGED <<sfKind, sfManifest, sfRes, sfHeap, sfFile, sfCreated, sfVulnerable>>
    /\ TasksFrame

\* createTempFile: tempFile.Close() and the name is returned
TaskClose(t) ==
    /\ sfPc[t] = "close"
    /\ sfPc' = [sfPc EXCEPT ![t] = "parse"]
    /\ UNCHANGED <<sfKind, sfManifest, sfRes, sfHeap, sfFile, sfFs, sfCreated,
                   sfVulnerable, sfErr>>
    /\ TasksFrame

\* createTempFile: Close fails; os.Remove, return the error
TaskCloseFails(t) ==
    /\ sfPc[t] = "close"
    /\ sfFs' = Remove(sfFs, sfFile[t])
    /\ TaskFails(t)
    /\ UNCHANGED <<sfKind, sfManifest, sfRes, sfHeap, sfFile, sfCreated, sfVulnerable>>
    /\ TasksFrame

\* resolver.ReadPackagesFromFile(tempFile): the identifiers in the file are
\* appended to the Packages of the task's resolver
TaskReadPackages(t) ==
    /\ sfPc[t] = "parse"
    /\ sfHeap' = [sfHeap EXCEPT ![sfRes[t]] = @ \o sfFs[sfFile[t]]]
    /\ sfPc' = [sfPc EXCEPT ![t] = "check"]
    /\ UNCHANGED <<sfKind, sfManifest, sfRes, sfFile, sfFs, sfCreated, sfVulnerable,
                   sfErr>>
    /\ TasksFrame

\* ReadPackagesFromFile returns an error; the call returns it and the
\* deferred removal runs
TaskReadPackagesFails(t) ==
    /\ sfPc[t] = "parse"
    /\ sfFs' = DeferredRemove(sfFs, sfFile[t], TRUE)
    /\ TaskFails(t)
    /\ UNCHANGED <<sfKind, sfManifest, sfRes, sfHeap, sfFile, sfCreated, sfVulnerable>>
    /\ TasksFrame

\* PackagesNotInPublic over the resolver's Packages, with `missing` the
\* names the registry does not have; AddVulnerable for each; the call
\* returns its result and the deferred removal runs
TaskCheck(t, missing) ==
    /\ sfPc[t] = "check"
    /\ sfVulnerable' = [sfVulnerable EXCEPT ![t] =
                            SelectSeq(sfHeap[sfRes[t]], LAMBDA p : p \in missing)]
    /\ sfFs' = DeferredRemove(sfFs, sfFile[t], FALSE)
    /\ sfPc' = [sfPc EXCEPT ![t] = "done"]
    /\ UNCHANGED <<sfKind, sfManifest, sfRes, sfHeap, sfFile, sfCreated, sfErr>>
    /\ TasksFrame

NextTasks ==
    \E t \in ScanTasks :
        \/ TaskGetResolver(t)
        \/ TaskCreateTemp(t)
        \/ TaskCreateTempFails(t)
        \/ TaskWrite(t)
        \/ TaskWriteFails(t)
        \/ TaskClose(t)
        \/ TaskCloseFails(t)
        \/ TaskReadPackages(t)
        \/ TaskReadPackagesFails(t)
        \/ \E missing \in SUBSET {"a", "b"} : TaskCheck(t, missing)

SpecTasks == InitTasks /\ [][NextTasks]_vars

\* C36: no two calls hold the same resolver, and the vulnerable list of a
\* call's result holds only identifiers of the manifest that call fetched,
\* however the calls interleave.
C36_ResolverPerManifest ==
    sfPc # <<>> =>
        /\ \A t, u \in ScanTasks : (t # u /\ sfRes[t] # 0) => sfRes[t] # sfRes[u]
        /\ \A t \in ScanTasks :
               /\ sfRes[t] # 0 => Range(sfHeap[sfRes[t]]) \subseteq Range(sfManifest[t])
               /\ Range(sfVulnerable[t]) \subseteq Range(sfManifest[t])

\* C36 witness: two calls with different manifests ran side by side, both
\* parsing before either checked, and each reported its own identifier.
C36_Witness ==
    /\ sfManifest[1] = <<"a">> /\ sfManifest[2] = <<"b", "a">>
    /\ sfPc[1] = "done" /\ sfPc[2] = "done"
    /\ sfVulnerable[1] = <<"a">> /\ sfVulnerable[2] = <<"b">>
    /\ sfRes[1] = 2 /\ sfRes[2] = 1

\* the temp files created by the calls that have returned
FilesOfReturned == {sfFile[t] : t \in {u \in ScanTasks : sfPc[u] = "done"}} \ {0}

\* C37: once a scanDependencyFile call has returned, with a result or with
\* any error, the temp file it created no longer exists; the only temp
\* files that exist belong to calls still running.
C37_TempFileRemovedOnReturn ==
    sfPc # <<>> =>
        /\ FilesOfReturned \cap DOMAIN sfFs = {}
        /\ DOMAIN sfFs \subseteq {sfFile[t] : t \in {u \in ScanTasks : sfPc[u] # "done"}}

\* C37 witness: one call has returned a parse error and the other a
\* result, both had created a temp file, and no temp file is left.
C37_Witness ==
    /\ sfPc[1] = "done" /\ sfErr[1] /\ sfFile[1] # 0 /\ sfRes[1] # 0
    /\ sfHeap[sfRes[1]] = <<>>
    /\ sfPc[2] = "done" /\ ~sfErr[2] /\ sfFile[2] # 0
    /\ sfCreated = 2 /\ sfFs = <<>>


-----------------------------------------------------------------------------
(* ScanOrganization with a pool of no workers *)

\* C38: with a pool size of 0 and one repository or more, once the listing
\* has succeeded ScanOrganization does not return: the queue has no room
\* and no worker receives from it, so the first Submit never completes,
\* nothing is submitted, and no batch is sent or collected.
C38_EmptyPoolNeverReturns ==
    (workers = 0 /\ Len(repos) >= 1 /\ ~orgErr) =>
        /\ orgPc \in {"list", "submit"}
        /\ Workers = {}
        /\ submitted = 0 /\ jobQueue = <<>>
        /\ collected = 0 /\ resultsChan = <<>> /\ allResults = <<>>
        /\ ~closed /\ ~cancelled

\* C38 witness: the pool of no workers has been started for three
\* repositories and the caller is inside the first Submit.
C38_Witness ==
    /\ workers = 0 /\ Len(repos) = 3 /\ ~orgErr
    /\ orgPc = "submit" /\ submitted = 0
    /\ ~ENABLED Submit


-----------------------------------------------------------------------------
(* processWebTargetsWithWorkers without workers *)

\* the call with a worker count of 0 (a negative count starts no worker
\* either: `for i := 0; i < workers; i++`)
InitNoWorkers == InitWeb /\ wtWorkers = 0

\* the goroutines that exist: the sender, the closer and the caller
NextNoWorkers ==
    \/ SendTarget
    \/ CloseTargets
    \/ CloseResults
    \/ ReturnWeb

\* every goroutine that can take a step eventually takes one
FairSpecNoWorkers ==
    /\ InitNoWorkers /\ [][NextNoWorkers]_vars
    /\ WF_vars(SendTarget) /\ WF_vars(CloseTargets)
    /\ WF_vars(CloseResults) /\ WF_vars(ReturnWeb)

\* C39: without workers processWebTargetsWithWorkers returns, and what it
\* returns is the empty aggregate (with a nil error, the only one it has),
\* although no target was received from targetChan, scanned or warned
\* about: the same value as a scan whose targets held nothing.
C39_NoWorkersReturnsEmpty ==
    /\ (wtWorkers = 0 /\ wtPc = "collect") ~> (wtPc = "returned")
    /\ [](wtWorkers = 0 =>
              /\ \A t \in Range(wtTargets) : wtTakes[t] = 0 /\ wtScans[t] = 0
              /\ resultChan = <<>> /\ wtAll = <<>> /\ wtWarned = {})

\* C39 witness: the call with three targets and no worker has returned the
\* empty aggregate and no target was taken.
C39_Witness ==
    /\ wtWorkers = 0 /\ Len(wtTargets) = 3 /\ wtPc = "returned"
    /\ wtAll = <<>>
    /\ \A t \in Range(wtTargets) : wtTakes[t] = 0


-----------------------------------------------------------------------------
(* the requirements of a pip manifest, line by line *)

\* a logical line held back by a continuation marker, if any
Pending(acc) == IF acc = <<>> THEN <<>> ELSE <<acc>>

\* the logical lines of a requirements file from line i on, with acc the
\* text joined so far: a line ending in the continuation marker is joined
\* with the line after it; a blank line, a comment line or the end of the
\* file ends the joining
RECURSIVE LogicalLinesFrom(_, _, _)
LogicalLinesFrom(lines, i, acc) ==
    IF i > Len(lines) THEN Pending(acc)
    ELSE LET l == TrimSpace(lines[i]) IN
         IF HasPrefix(l, <<"#">>) \/ Len(l) = 0
         THEN Pending(acc) \o LogicalLinesFrom(lines, i + 1, <<>>)
         ELSE IF HasSuffix(l, <<Backslash>>)
              THEN LogicalLinesFrom(lines, i + 1, acc \o Front(l))
         ELSE <<acc \o l>> \o LogicalLinesFrom(lines, i + 1, <<>>)

\* the logical lines that hold a character which is not a delimiter
Requirements(lines) ==
    SelectSeq(LogicalLinesFrom(lines, 1, <<>>),
              LAMBDA r : \E k \in DOMAIN r : ~pipSplit(r[k]))

\* C40: the pip parser returns one package reference for every logical
\* line that is not a comment and holds a character other than a
\* delimiter, in file order: a last line ending in the continuation marker
\* yields its reference, and a blank or comment line after a continuation
\* line keeps the requirements on either side of it apart.
C40_PipLosesNoRequirement ==
    (prPc = "returned" /\ prReadable /\ prLang = "pip" /\ prContent # <<>>) =>
        LET reqs == Requirements(prContent) IN
            /\ Len(prPackages) = Len(reqs)
            /\ \A k \in DOMAIN reqs :
                   k <= Len(prPackages) =>
                       prPackages[k] = TrimSpace(FieldsFunc(reqs[k])[1])

=============================================================================
